---- MODULE Spec2Model ----
(***************************************************************************)
(* Model of the rtnetlink protocol engine of comet (crates/netlink):       *)
(*   - the transaction loop SocketHandle::execute over one netlink socket  *)
(*     (specification Spec, and SpecLive for its termination);             *)
(*   - the wire codec NetlinkRequest::serialize / NetlinkRouteAttr         *)
(*     ::serialize (specification SpecSer);                                *)
(*   - the parsers of messages and attributes (specification SpecDec);     *)
(*   - the verbs of the facade Netlink (specification SpecApi) and the     *)
(*     round trips through the deserializers (SpecTrip, SpecLink);         *)
(*   - NetlinkSocket::send (specification SpecSock);                       *)
(* and of the address allocator of the plugin (specification SpecIpam).    *)
(***************************************************************************)
EXTENDS Integers, Sequences, FiniteSets, TLC

(***************************************************************************)
(* Bounds of the model.                                                    *)
(***************************************************************************)
\* number of transactions run on the socket handle
MaxTx == 2
\* number of netlink messages the socket receives in a run
MaxDelivered == 3
\* number of netlink messages in one datagram
MaxDgLen == 2

(***************************************************************************)
(* Program constants.                                                      *)
(***************************************************************************)
NLMSG_ERROR == 2
NLMSG_DONE == 3
PID_KERNEL == 0
NETLINK_ROUTE == 0

SUPPORTED_PROTOCOLS == {NETLINK_ROUTE}

NLMSG_HDRLEN == 16
NLMSG_ALIGNTO == 4
RTA_ALIGNTO == 4
RT_ATTR_SIZE == 4
IF_INFO_MSG_SIZE == 16
\* libc::RTM_NEWLINK, the type of a payload message of a link reply
RTM_NEWLINK == 16

\* the port the kernel gave the socket at bind, as getsockname reports it
LocalPid == 4242
\* ports of other netlink senders (processes, not the kernel)
OtherPeers == {777}
\* errno a failing sendto / recvfrom / getsockname leaves (ENOBUFS)
OsErrnos == {105}

VARIABLES
    seq,        \* SocketHandle.seq
    pc,         \* "idle": no transaction runs; "recv": execute blocks in recv
    multi,      \* the multi argument of the running execute
    reqSeq,     \* req.header.nlmsg_seq of the running (or last) transaction
    res,        \* the local res of execute
    out,        \* what the last execute returned
    queue,      \* datagrams in the socket's receive queue
    curDg,      \* (msgs, from) of the last recv
    at,         \* index in curDg.msgs of the last message the for loop took up
    resIn,      \* res when the last recv returned
    seen,       \* messages of all datagrams read by the running transaction
    lastTaken,  \* the datagram that left the receive queue last
    sentLog,    \* nlmsg_seq of every request handed to send, in order
    doneLog,    \* of every execute that returned, in order: the request's
                \* seq, whether it succeeded, whether a syscall failed
    nDelivered, \* messages delivered to the socket so far
    req,        \* a NetlinkRequest under construction (specification SpecSer)
    wire,       \* the bytes req.serialize() returned, <<>> before
    rsrc,       \* what a buffer handed to a parser was made of (SpecDec)
    rbuf,       \* the buffer handed to the parser
    dec,        \* what the parser handed back
    call,       \* the verb called last and its arguments (SpecApi)
    ret,        \* what that verb returned
    nl,         \* the facade: its map of sockets, the sockets opened and closed
    sock,       \* a NetlinkSocket and the sendto calls made on it (SpecSock)
    ipam        \* the reservation store and the allocate_ip calls (SpecIpam)

txVars == <<seq, pc, multi, reqSeq, res, out, queue, curDg, at, resIn, seen,
            lastTaken, sentLog, doneLog, nDelivered>>

serVars == <<req, wire>>

decVars == <<rsrc, rbuf, dec>>

apiVars == <<call, ret, nl, sock, ipam>>

vars == <<txVars, serVars, decVars, apiVars>>

\* the variables a step of the transaction loop, of the serializer and of a
\* parser leaves alone
notTx == <<serVars, decVars, apiVars>>

notSer == <<txVars, decVars, apiVars>>

notDec == <<txVars, serVars, apiVars>>

(***************************************************************************)
(* Integers of the program's width.                                        *)
(***************************************************************************)
\* i32::from_ne_bytes on a little-endian host
FromNeBytesI32(b) ==
    IF b[4] >= 128
    THEN b[1] + 256 * b[2] + 65536 * b[3] + 16777216 * (b[4] - 256)
    ELSE b[1] + 256 * b[2] + 65536 * b[3] + 16777216 * b[4]

I32Min == -2147483647 - 1

\* -err_no on i32 (wrapping at i32::MIN)
NegI32(x) == IF x = I32Min THEN x ELSE 0 - x

NextSeqStuck(s) == s

\* self.seq += 1 (u32; the counter stays far below u32::MAX here)
NextSeq(s) == s + 1

(***************************************************************************)
(* Messages and datagrams.                                                 *)
(***************************************************************************)
Msg(s, p, t, d) == [seq |-> s, pid |-> p, type |-> t, data |-> d]

NoDg == [from |-> PID_KERNEL, msgs |-> <<>>]

Outcome(k, e, t, p) == [kind |-> k, errno |-> e, tail |-> t, payloads |-> p]

NoOutcome == Outcome("None", 0, <<>>, <<>>)

\* bodies of ERROR / DONE frames: code 0; code -2 (ENOENT) and a tail
AckBody == <<0, 0, 0, 0>>
NackBody == <<254, 255, 255, 255, 9>>

\* what a datagram can hold while the handle's counter is s: the kernel's
\* replies to request s (acknowledgement, rejection, end of dump, two
\* payloads), a message for another port, and a notification (sequence 0,
\* port 0). Replies to earlier requests are those left in the queue.
Alphabet(s) ==
    {Msg(s, LocalPid, NLMSG_ERROR, AckBody),
     Msg(s, LocalPid, NLMSG_ERROR, NackBody),
     Msg(s, LocalPid, NLMSG_DONE, AckBody),
     Msg(s, LocalPid, RTM_NEWLINK, <<7>>),
     Msg(s, LocalPid, RTM_NEWLINK, <<8, 8>>),
     Msg(s, PID_KERNEL, NLMSG_ERROR, AckBody),
     Msg(0, PID_KERNEL, RTM_NEWLINK, <<7>>)}

\* what a datagram of another sender holds: one message made to look like
\* the kernel's acknowledgement of request s, or like a payload of its reply
\* (execute reads no field of such a message)
StrayAlphabet(s) ==
    {Msg(s, LocalPid, NLMSG_ERROR, AckBody),
     Msg(s, LocalPid, RTM_NEWLINK, <<7>>)}

SeqsOf(S, n) == UNION {[1..k -> S] : k \in 1..n}

Min(a, b) == IF a < b THEN a ELSE b

\* the datagrams that can reach the socket while the counter is s, of at
\* most n messages: from the kernel, or one message from another sender
Datagrams(s, n) ==
    {[from |-> PID_KERNEL, msgs |-> ms] : ms \in SeqsOf(Alphabet(s), n)}
        \cup {[from |-> f, msgs |-> <<m>>] :
                  f \in OtherPeers, m \in StrayAlphabet(s)}

(***************************************************************************)
(* SocketHandle::execute.                                                  *)
(***************************************************************************)
SeqMatchesAlways(m, cur) == TRUE

\* m.header.nlmsg_seq != req.header.nlmsg_seq, negated
SeqMatches(m, cur) == m.seq = cur

PidMatchesAlways(m) == TRUE

\* m.header.nlmsg_pid != pid, negated
PidMatches(m) == m.pid = LocalPid

IsTerminalTypeErrorOnly(t) == t = NLMSG_ERROR

\* consts::NLMSG_DONE | consts::NLMSG_ERROR
IsTerminalType(t) == t \in {NLMSG_DONE, NLMSG_ERROR}

PeerIsKernelAlways(dg) == TRUE

\* from.nl_pid != consts::PID_KERNEL, negated
PeerIsKernel(dg) == dg.from = PID_KERNEL

PushFront(r, d) == <<d>> \o r

\* res.push(m.data)
Push(r, d) == Append(r, d)

HintBreaks(mu) == IF mu THEN "continue" ELSE "break"

\* if multi { continue; } as the last statement of the for loop's body: the
\* loop goes on with the next message with the hint and without it
Hint(mu) == IF mu THEN "continue" ELSE "continue"

Loop(st, r, i, e, t) == [st |-> st, res |-> r, at |-> i, errno |-> e, tail |-> t]

\* the for loop over the messages of one datagram, from message i on, with
\* res = r, the request's sequence number cur and the multi hint mu: st is
\* "more" when the loop ran off the datagram, "done" on break 'done, and the
\* failure otherwise; at is the last message the loop took up
RECURSIVE ForMsgs(_, _, _, _, _)
ForMsgs(msgs, i, r, cur, mu) ==
    IF i > Len(msgs) THEN Loop("more", r, i - 1, 0, <<>>)
    ELSE LET m == msgs[i] IN
        IF ~SeqMatches(m, cur) THEN Loop("SequenceMismatch", r, i, 0, <<>>)
        ELSE IF ~PidMatches(m) THEN ForMsgs(msgs, i + 1, r, cur, mu)
        ELSE IF IsTerminalType(m.type)
        THEN LET err_no == FromNeBytesI32(SubSeq(m.data, 1, 4)) IN
             IF err_no = 0 THEN Loop("done", r, i, 0, <<>>)
             ELSE Loop("KernelError", r, i, NegI32(err_no),
                       SubSeq(m.data, 5, Len(m.data)))
        ELSE IF Hint(mu) = "continue"
        THEN ForMsgs(msgs, i + 1, Push(r, m.data), cur, mu)
        ELSE Loop("done", Push(r, m.data), i, 0, <<>>)

RecvFromDrain(q) == [dg |-> Head(q), rest |-> <<>>]

\* recvfrom: one datagram leaves the receive queue
RecvFrom(q) == [dg |-> Head(q), rest |-> Tail(q)]

ReturnCloses(s, o) ==
    /\ pc' = IF o.kind = "SocketError" THEN "closed" ELSE "idle"
    /\ out' = o
    /\ multi' = FALSE
    /\ doneLog' = Append(doneLog, [seq |-> s, ok |-> o.kind = "Ok",
                                   sys |-> o.kind = "SocketError"])

\* execute returns o for the request stamped s
Return(s, o) ==
    /\ pc' = "idle"
    /\ out' = o
    /\ multi' = FALSE
    /\ doneLog' = Append(doneLog, [seq |-> s, ok |-> o.kind = "Ok",
                                   sys |-> o.kind = "SocketError"])

\* execute up to the first recv: stamp the request, serialize, send, pid
Execute(m) ==
    /\ pc = "idle"
    /\ Len(sentLog) < MaxTx
    /\ seq' = NextSeq(seq)
    /\ reqSeq' = seq'
    /\ multi' = m
    /\ sentLog' = Append(sentLog, seq')
    /\ res' = <<>>
    /\ seen' = <<>>
    /\ curDg' = NoDg
    /\ at' = 0
    /\ resIn' = <<>>
    /\ pc' = "recv"
    /\ out' = NoOutcome
    /\ lastTaken' = NoDg
    /\ UNCHANGED <<queue, doneLog, nDelivered>>
    /\ UNCHANGED notTx

\* execute when sendto fails: self.socket.send(&buf)? returns the error
ExecuteSendFails(m, e) ==
    /\ pc = "idle"
    /\ Len(sentLog) < MaxTx
    /\ seq' = NextSeq(seq)
    /\ reqSeq' = seq'
    /\ sentLog' = Append(sentLog, seq')
    /\ res' = <<>>
    /\ seen' = <<>>
    /\ curDg' = NoDg
    /\ at' = 0
    /\ resIn' = <<>>
    /\ lastTaken' = NoDg
    /\ Return(NextSeq(seq), Outcome("SocketError", e, <<>>, <<>>))
    /\ UNCHANGED <<queue, nDelivered>>
    /\ UNCHANGED notTx

\* execute when getsockname fails: self.socket.pid()? returns the error
ExecutePidFails(m, e) ==
    /\ pc = "idle"
    /\ Len(sentLog) < MaxTx
    /\ seq' = NextSeq(seq)
    /\ reqSeq' = seq'
    /\ sentLog' = Append(sentLog, seq')
    /\ res' = <<>>
    /\ seen' = <<>>
    /\ curDg' = NoDg
    /\ at' = 0
    /\ resIn' = <<>>
    /\ lastTaken' = NoDg
    /\ Return(NextSeq(seq), Outcome("SocketError", e, <<>>, <<>>))
    /\ UNCHANGED <<queue, nDelivered>>
    /\ UNCHANGED notTx

\* one turn of the 'done loop: recv a datagram, check its peer, run the for
\* loop over its messages
Recv ==
    /\ pc = "recv"
    /\ queue # <<>>
    /\ LET r == RecvFrom(queue)
           dg == r.dg
           l == ForMsgs(dg.msgs, 1, res, reqSeq, multi)
       IN
        /\ queue' = r.rest
        /\ lastTaken' = queue[Len(queue) - Len(r.rest)]
        /\ curDg' = dg
        /\ resIn' = res
        /\ seen' = seen \o dg.msgs
        /\ IF ~PeerIsKernel(dg)
           THEN /\ at' = 0
                /\ res' = res
                /\ Return(reqSeq, Outcome("UnexpectedPeer", 0, <<>>, <<>>))
           ELSE /\ at' = l.at
                /\ res' = l.res
                /\ CASE l.st = "more" -> UNCHANGED <<pc, out, doneLog, multi>>
                     [] l.st = "done" -> Return(reqSeq, Outcome("Ok", 0, <<>>, l.res))
                     [] OTHER -> Return(reqSeq, Outcome(l.st, l.errno, l.tail, <<>>))
    /\ UNCHANGED <<seq, reqSeq, sentLog, nDelivered>>
    /\ UNCHANGED notTx

\* recvfrom fails: self.socket.recv()? returns the error
RecvFails(e) ==
    /\ pc = "recv"
    /\ Return(reqSeq, Outcome("SocketError", e, <<>>, <<>>))
    /\ UNCHANGED <<seq, reqSeq, res, queue, curDg, at, resIn, seen,
                   lastTaken, sentLog, nDelivered>>
    /\ UNCHANGED notTx

\* a datagram reaches the socket while a request is outstanding; what a
\* transaction leaves unread stays queued for the next one
Deliver(dg) ==
    /\ pc = "recv"
    /\ nDelivered + Len(dg.msgs) <= MaxDelivered
    /\ queue' = Append(queue, dg)
    /\ nDelivered' = nDelivered + Len(dg.msgs)
    /\ UNCHANGED <<seq, pc, multi, reqSeq, res, out, curDg, at, resIn, seen,
                   lastTaken, sentLog, doneLog>>
    /\ UNCHANGED notTx

(***************************************************************************)
(* Wire codec: NetlinkRequest::serialize and the NetlinkRequestData parts. *)
(***************************************************************************)
\* number of attributes added to a request after its family message
MaxAttrs == 2
\* number of bytes of an attribute's value
MaxValLen == 3

\* libc constants
NLM_F_REQUEST == 1
NLM_F_ACK == 4
NLM_F_EXCL == 512
NLM_F_CREATE == 1024
RTM_NEWADDR == 20
RTM_NEWROUTE == 24
AF_UNSPEC == 0
AF_INET == 2
IFLA_IFNAME == 3
IFLA_LINKINFO == 18
IFLA_INFO_KIND == 1
IFLA_INFO_DATA == 2
VETH_INFO_PEER == 1
IF_ADDR_MSG_SIZE == 8

\* the bytes of attribute values
ValBytes == {97}

\* u16 / u32 in host (little-endian) byte order
U16LE(n) == <<n % 256, (n \div 256) % 256>>

U32LE(n) ==
    <<n % 256, (n \div 256) % 256, (n \div 65536) % 256,
      (n \div 16777216) % 256>>

\* the u16 / u32 read at byte offset off (0-based) of b
U16At(b, off) == b[off + 1] + 256 * b[off + 2]

U32At(b, off) ==
    b[off + 1] + 256 * b[off + 2] + 65536 * b[off + 3] + 16777216 * b[off + 4]

\* a | b on non-negative integers
RECURSIVE BitOr(_, _)
BitOr(a, b) ==
    IF a = 0 THEN b
    ELSE IF b = 0 THEN a
    ELSE (IF a % 2 = 1 \/ b % 2 = 1 THEN 1 ELSE 0)
         + 2 * BitOr(a \div 2, b \div 2)

AlignOfNone(len, align_to) == len

\* (len + align_to - 1) & !(align_to - 1), align_to a power of two
AlignOf(len, align_to) == ((len + align_to - 1) \div align_to) * align_to

\* Vec::resize(n, 0) of a shorter buffer
Resize(buf, n) == buf \o [i \in 1..(n - Len(buf)) |-> 0]

\* IfInfoMessage::new(family), with index set afterwards
IfInfoMessage(family, index) ==
    [k |-> "ifinfo", ifi_family |-> family % 256, ifi_type |-> 0,
     ifi_index |-> index, ifi_flags |-> 0, ifi_change |-> 0]

\* IfAddrMessage::new(family), with prefix length, scope and index set
IfAddrMessage(family, prefix_len, index) ==
    [k |-> "ifaddr", ifa_family |-> family % 256, ifa_prefix_len |-> prefix_len,
     ifa_flags |-> 0, ifa_scope |-> 0, ifa_index |-> index]

\* the 12-byte route message: family, dst_len, src_len, tos, table,
\* protocol, scope, type, flags
RouteMessage(family, dst_len, table, protocol, type) ==
    [k |-> "route", family |-> family, dst_len |-> dst_len, src_len |-> 0,
     tos |-> 0, table |-> table, protocol |-> protocol, scope |-> 0,
     type |-> type, flags |-> 0]

\* NetlinkRouteAttr::new
AttrNew(rta_type, value) ==
    [k |-> "attr", rta_len |-> (RT_ATTR_SIZE + Len(value)) % 65536,
     rta_type |-> rta_type, value |-> value, children |-> <<>>]

\* NetlinkRequestData::len
DataLen(d) ==
    CASE d.k = "attr" -> d.rta_len
      [] d.k = "ifinfo" -> IF_INFO_MSG_SIZE
      [] d.k = "ifaddr" -> IF_ADDR_MSG_SIZE
      [] d.k = "route" -> 12

\* NetlinkRouteAttr::add_child_from_attr
AddChildFromAttr(p, c) ==
    [p EXCEPT !.rta_len = (p.rta_len + DataLen(c)) % 65536,
              !.children = Append(p.children, c)]

\* NetlinkRouteAttr::add_child
AddChild(p, rta_type, value) == AddChildFromAttr(p, AttrNew(rta_type, value))

\* bincode of IfInfoMessage: u8, pad u8, u16, i32, u32, u32
SerializeIfInfo(d) ==
    <<d.ifi_family, 0>> \o U16LE(d.ifi_type) \o U32LE(d.ifi_index)
        \o U32LE(d.ifi_flags) \o U32LE(d.ifi_change)

\* bincode of IfAddrMessage: four u8, u32
SerializeIfAddr(d) ==
    <<d.ifa_family, d.ifa_prefix_len, d.ifa_flags, d.ifa_scope>>
        \o U32LE(d.ifa_index)

\* the route message on the wire: eight u8, u32
SerializeRoute(d) ==
    <<d.family, d.dst_len, d.src_len, d.tos, d.table, d.protocol, d.scope,
      d.type>> \o U32LE(d.flags)

RECURSIVE SerializeData(_)

\* the serializations of the parts ds, one after the other
RECURSIVE SerializeAll(_)
SerializeAll(ds) ==
    IF ds = <<>> THEN <<>>
    ELSE SerializeData(Head(ds)) \o SerializeAll(Tail(ds))

\* NetlinkRouteAttr::serialize
SerializeAttr(d) ==
    LET head == U16LE(d.rta_len) \o U16LE(d.rta_type) \o d.value
        align_to == AlignOf(Len(head), RTA_ALIGNTO)
        padded == IF Len(head) < align_to THEN Resize(head, align_to) ELSE head
        buf == padded \o SerializeAll(d.children)
    IN U16LE(Len(buf) % 65536) \o SubSeq(buf, 3, Len(buf))

\* NetlinkRequestData::serialize, by the type of the part
SerializeData(d) ==
    CASE d.k = "attr" -> SerializeAttr(d)
      [] d.k = "ifinfo" -> SerializeIfInfo(d)
      [] d.k = "ifaddr" -> SerializeIfAddr(d)
      [] d.k = "route" -> SerializeRoute(d)

\* NetlinkMessageHeader::new
NetlinkMessageHeaderNew(proto, flags) ==
    [nlmsg_len |-> NLMSG_HDRLEN, nlmsg_type |-> proto,
     nlmsg_flags |-> BitOr(NLM_F_REQUEST, flags) % 65536,
     nlmsg_seq |-> 0, nlmsg_pid |-> 0]

\* bincode of NetlinkMessageHeader: u32, u16, u16, u32, u32
SerializeHeader(h) ==
    U32LE(h.nlmsg_len) \o U16LE(h.nlmsg_type) \o U16LE(h.nlmsg_flags)
        \o U32LE(h.nlmsg_seq) \o U32LE(h.nlmsg_pid)

\* NetlinkRequest::new (data and raw_data None)
NetlinkRequestNew(proto, flags) ==
    [header |-> NetlinkMessageHeaderNew(proto, flags), data |-> <<>>,
     raw_data |-> <<>>]

NoRequest == NetlinkRequestNew(0, 0)

PatchLenNever(buf, n) == buf

\* buf[0..4].copy_from_slice(nlmsg_len)
PatchLen(buf, n) == U32LE(n) \o SubSeq(buf, 5, Len(buf))

\* NetlinkRequest::serialize: the bytes, and the header with nlmsg_len set
SerializeRequest(r) ==
    LET buf == SerializeHeader(r.header) \o SerializeAll(r.data) \o r.raw_data
    IN [buf |-> PatchLen(buf, Len(buf)),
        header |-> [r.header EXCEPT !.nlmsg_len = Len(buf)]]

(***************************************************************************)
(* Parsers: NetlinkRouteAttr::from / map and NetlinkMessage::from.         *)
(***************************************************************************)
\* what a parser hands back: st is "Ok" with the items parsed, or "Panic"
\* when a slice index is out of range (the parsers have no Err path)
Parsed(items) == [st |-> "Ok", items |-> items]

Panicked == [st |-> "Panic", items |-> <<>>]

\* buf[start..end], 0-based and end exclusive: a start above end or an end
\* above buf.len() panics
SliceOk(buf, start, end) == start <= end /\ end <= Len(buf)

Slice(buf, start, end) == SubSeq(buf, start + 1, end)

\* the item put before the items of a parse that went through
Cons(x, r) == IF r.st = "Ok" THEN Parsed(<<x>> \o r.items) ELSE r

\* NetlinkRouteAttr::from: while buf.len() >= RT_ATTR_SIZE, read rta_len and
\* rta_type, take buf[RT_ATTR_SIZE..rta_len] as value, go on at
\* buf[align_of(rta_len)..]
RECURSIVE NetlinkRouteAttrFrom(_)
NetlinkRouteAttrFrom(buf) ==
    IF Len(buf) < RT_ATTR_SIZE THEN Parsed(<<>>)
    ELSE LET rta_len == U16At(buf, 0)
             rta_type == U16At(buf, 2)
             len == AlignOf(rta_len, RTA_ALIGNTO)
         IN
         IF ~SliceOk(buf, RT_ATTR_SIZE, rta_len) THEN Panicked
         ELSE IF ~SliceOk(buf, len, Len(buf)) THEN Panicked
         ELSE Cons([rta_len |-> rta_len, rta_type |-> rta_type,
                    value |-> Slice(buf, RT_ATTR_SIZE, rta_len)],
                   NetlinkRouteAttrFrom(Slice(buf, len, Len(buf))))

\* the header read at the start of buf (repr(C): u32, u16, u16, u32, u32)
NetlinkMessageHeaderAt(buf) ==
    [nlmsg_len |-> U32At(buf, 0), nlmsg_type |-> U16At(buf, 4),
     nlmsg_flags |-> U16At(buf, 6), nlmsg_seq |-> U32At(buf, 8),
     nlmsg_pid |-> U32At(buf, 12)]

DataWithPadding(buf, nlmsg_len, len) == Slice(buf, NLMSG_HDRLEN, len)

\* buf[NLMSG_HDRLEN..header.nlmsg_len]
DataOf(buf, nlmsg_len, len) == Slice(buf, NLMSG_HDRLEN, nlmsg_len)

\* NetlinkMessage::from: while buf.len() >= NLMSG_HDRLEN, read the header,
\* take buf[NLMSG_HDRLEN..nlmsg_len] as data, go on at
\* buf[align_of(nlmsg_len)..]
RECURSIVE NetlinkMessageFrom(_)
NetlinkMessageFrom(buf) ==
    IF Len(buf) < NLMSG_HDRLEN THEN Parsed(<<>>)
    ELSE LET header == NetlinkMessageHeaderAt(buf)
             len == AlignOf(header.nlmsg_len, NLMSG_ALIGNTO)
         IN
         IF ~SliceOk(buf, NLMSG_HDRLEN, header.nlmsg_len) THEN Panicked
         ELSE IF ~SliceOk(buf, len, Len(buf)) THEN Panicked
         ELSE Cons([header |-> header,
                    data |-> DataOf(buf, header.nlmsg_len, len)],
                   NetlinkMessageFrom(Slice(buf, len, Len(buf))))

(***************************************************************************)
(* Buffers handed to the parsers (specification SpecDec).                  *)
(***************************************************************************)
\* number of messages, or of attributes, laid out in a buffer
MaxItems == 2
\* number of bytes of a message body or of an attribute payload
MaxBodyLen == 4

\* b followed by zero bytes up to the next multiple of 4
PadTo4(b) == b \o [i \in 1..((4 - (Len(b) % 4)) % 4) |-> 0]

Bodies == {<<>>} \cup SeqsOf({7}, MaxBodyLen)

\* a well-formed message: nlmsg_len is 16 plus the length of its body
WellFormedMessage(t, d) ==
    [header |-> [nlmsg_len |-> NLMSG_HDRLEN + Len(d), nlmsg_type |-> t,
                 nlmsg_flags |-> 0, nlmsg_seq |-> 1, nlmsg_pid |-> LocalPid],
     data |-> d]

\* a well-formed attribute: rta_len is 4 plus the length of its payload
WellFormedAttr(t, d) ==
    [rta_len |-> RT_ATTR_SIZE + Len(d), rta_type |-> t, value |-> d]

\* the wire form of a message / an attribute whose length field states
\* stated: header, body, padding to a multiple of 4
WireMessage(m, stated) ==
    PadTo4(SerializeHeader([m.header EXCEPT !.nlmsg_len = stated]) \o m.data)

WireAttr(a, stated) ==
    PadTo4(U16LE(stated) \o U16LE(a.rta_type) \o a.value)

\* what a buffer is made of: the items laid out one after the other, item
\* fault (0: none) stating the length stated instead of its own, and trail
Source(kind, items, fault, stated, trail) ==
    [kind |-> kind, items |-> items, fault |-> fault, stated |-> stated,
     trail |-> trail]

NoSource == Source("none", <<>>, 0, 0, <<>>)

NoDec == [st |-> "None", items |-> <<>>]

RECURSIVE WireItems(_, _)
WireItems(src, i) ==
    IF i > Len(src.items) THEN src.trail
    ELSE LET x == src.items[i] IN
         (IF src.kind = "msgs"
          THEN WireMessage(x, IF i = src.fault THEN src.stated
                              ELSE x.header.nlmsg_len)
          ELSE WireAttr(x, IF i = src.fault THEN src.stated ELSE x.rta_len))
            \o WireItems(src, i + 1)

Encode(src) == WireItems(src, 1)

\* lengths a malformed item states: below the header size, and beyond the
\* bytes of the buffer
FaultLens(kind) == IF kind = "msgs" THEN {0, 12, 200} ELSE {0, 3, 200}

\* trailing bytes too few to hold a header
Trails(kind) ==
    IF kind = "msgs" THEN {<<>>, <<1>>, [i \in 1..15 |-> 1]}
    ELSE {<<>>, <<1>>, <<1, 1, 1>>}

\* the items of a buffer: one per body, of two types
ItemsOf(kind) ==
    IF kind = "msgs"
    THEN {WellFormedMessage(IF Len(d) % 2 = 0 THEN NLMSG_ERROR ELSE RTM_NEWLINK, d) :
             d \in Bodies}
    ELSE {WellFormedAttr(IF Len(d) % 2 = 0 THEN IFLA_IFNAME ELSE IFLA_LINKINFO, d) :
             d \in Bodies}

Sources ==
    UNION {
        {Source(kind, items, 0, 0, trail) :
            items \in SeqsOf(ItemsOf(kind), MaxItems), trail \in Trails(kind)}
        \cup
        {Source(kind, items, f, l, trail) :
            items \in SeqsOf(ItemsOf(kind), MaxItems), trail \in Trails(kind),
            f \in 1..MaxItems, l \in FaultLens(kind)}
        : kind \in {"msgs", "attrs"}}

\* recv hands the received bytes to NetlinkMessage::from
ParseMessages ==
    /\ rsrc.kind = "msgs"
    /\ dec = NoDec
    /\ dec' = NetlinkMessageFrom(rbuf)
    /\ UNCHANGED <<rsrc, rbuf>>
    /\ UNCHANGED notDec

\* a deserializer hands the bytes after the family message to
\* NetlinkRouteAttr::from
ParseAttrs ==
    /\ rsrc.kind = "attrs"
    /\ dec = NoDec
    /\ dec' = NetlinkRouteAttrFrom(rbuf)
    /\ UNCHANGED <<rsrc, rbuf>>
    /\ UNCHANGED notDec

DecIdle ==
    /\ rsrc = NoSource
    /\ rbuf = <<>>
    /\ dec = NoDec

\* the values, family messages and attributes the verbs put into a request
Values == {<<>>} \cup SeqsOf(ValBytes, MaxValLen)

Families ==
    {IfInfoMessage(AF_UNSPEC, 0), IfInfoMessage(AF_UNSPEC, 258),
     IfAddrMessage(AF_INET, 24, 1), RouteMessage(AF_INET, 24, 254, 3, 1)}

\* IFLA_LINKINFO { IFLA_INFO_KIND v }
LinkInfo(v) == AddChild(AttrNew(IFLA_LINKINFO, <<>>), IFLA_INFO_KIND, v)

\* IFLA_LINKINFO { IFLA_INFO_KIND v, IFLA_INFO_DATA { VETH_INFO_PEER {
\* link-info header, IFLA_IFNAME v } } }, as link_new builds it for a veth
VethInfo(v) ==
    AddChildFromAttr(LinkInfo(v),
        AddChildFromAttr(AttrNew(IFLA_INFO_DATA, <<>>),
            AddChild(AddChildFromAttr(AttrNew(VETH_INFO_PEER, <<>>),
                                      IfInfoMessage(AF_UNSPEC, 0)),
                     IFLA_IFNAME, v)))

Attrs ==
    {AttrNew(IFLA_IFNAME, v) : v \in Values}
        \cup {LinkInfo(v) : v \in Values}
        \cup {VethInfo(v) : v \in Values}

\* req.add_data: the family message first, then attributes
AddData(d) ==
    /\ wire = <<>>
    /\ Len(req.data) <= MaxAttrs
    /\ d.k = "attr" <=> req.data # <<>>
    /\ req' = [req EXCEPT !.data = Append(req.data, d)]
    /\ UNCHANGED wire
    /\ UNCHANGED notSer

\* execute, lines 442-447: stamp the sequence number s and serialize
StampAndSerialize(s) ==
    /\ wire = <<>>
    /\ req.data # <<>>
    /\ LET r == SerializeRequest([req EXCEPT !.header.nlmsg_seq = s]) IN
        /\ wire' = r.buf
        /\ req' = [req EXCEPT !.header = r.header]
    /\ UNCHANGED notSer

(***************************************************************************)
(* The address allocator of the plugin (specification SpecIpam).           *)
(***************************************************************************)
\* invocations of allocate_ip, and the host bits of the subnet
MaxInvocations == 3
SubnetBits == 3

(***************************************************************************)
(* The verbs of SocketHandle and of the facade (specification SpecApi).    *)
(***************************************************************************)
\* number of verbs called on the facade in a run
MaxCalls == 2
\* number of characters of a link name
MaxNameLen == 4

\* libc constants
RTM_DELLINK == 17
RTM_GETLINK == 18
RTM_DELADDR == 21
RTM_GETADDR == 22
RTM_DELROUTE == 25
RTM_GETROUTE == 26
NLM_F_REPLACE == 256
NLM_F_DUMP == 768
NLM_F_APPEND == 2048
AF_INET6 == 10
IFF_UP == 1
IFLA_ADDRESS == 1
IFLA_MTU == 4
IFLA_TXQLEN == 13
IFLA_NET_NS_PID == 19
IFLA_NET_NS_FD == 28
IFLA_NUM_TX_QUEUES == 31
IFLA_NUM_RX_QUEUES == 32
IFLA_BR_HELLO_TIME == 2
IFLA_BR_AGEING_TIME == 4
IFLA_BR_VLAN_FILTERING == 7
IFLA_BR_MCAST_SNOOPING == 23
IFA_ADDRESS == 1
IFA_LOCAL == 2
IFA_LABEL == 3
IFA_BROADCAST == 4
RTA_DST == 1
RTA_IIF == 3
RTA_OIF == 4
RTA_GATEWAY == 5
RTA_PREFSRC == 7

\* a & b on non-negative integers
RECURSIVE BitAnd(_, _)
BitAnd(a, b) ==
    IF a = 0 \/ b = 0 THEN 0
    ELSE (IF a % 2 = 1 /\ b % 2 = 1 THEN 1 ELSE 0)
         + 2 * BitAnd(a \div 2, b \div 2)

\* Option<T>: None is <<>>, Some(v) is <<v>>
None == <<>>

Some(v) == <<v>>

\* utils::zero_terminated
ZeroTerminated(str) == Append(str, 0)

\* Kind::link_type, as bytes
LinkType(kind) ==
    CASE kind = "Dummy" -> <<100, 117, 109, 109, 121>>
      [] kind = "Bridge" -> <<98, 114, 105, 100, 103, 101>>
      [] kind = "Veth" -> <<118, 101, 116, 104>>
      [] OTHER -> <<100, 101, 118, 105, 99, 101>>

\* LinkAttrs (the fields link_new and link_deserialize use)
LinkAttrs(link_type, index, name, mtu, flags) ==
    [link_type |-> link_type, index |-> index, name |-> name, mtu |-> mtu,
     flags |-> flags, raw_flags |-> 0, hw_addr |-> <<>>, tx_queue_len |-> 0,
     num_tx_queues |-> 0, num_rx_queues |-> 0]

\* a Kind value: the variant, its attrs and the fields of Bridge and Veth
Kind(kind, attrs) ==
    [kind |-> kind, attrs |-> attrs, hello_time |-> None,
     ageing_time |-> None, multicast_snooping |-> None,
     vlan_filtering |-> None, peer_name |-> <<>>, peer_hw_addr |-> None,
     peer_ns |-> None]

\* an attribute in a list when cond holds, as the builders add them
AttrIf(cond, rta_type, value) ==
    IF cond THEN <<AttrNew(rta_type, value)>> ELSE <<>>

\* add_child for each attribute of cs, in order
RECURSIVE AddChildren(_, _)
AddChildren(parent, cs) ==
    IF cs = <<>> THEN parent
    ELSE AddChildren(AddChildFromAttr(parent, Head(cs)), Tail(cs))

\* link_new, the Kind::Bridge arm: IFLA_INFO_DATA with the fields set
BridgeData(link) ==
    AddChildren(AttrNew(IFLA_INFO_DATA, <<>>),
        AttrIf(link.hello_time # None, IFLA_BR_HELLO_TIME,
               U32LE(IF link.hello_time # None THEN link.hello_time[1] ELSE 0))
        \o AttrIf(link.ageing_time # None, IFLA_BR_AGEING_TIME,
               U32LE(IF link.ageing_time # None THEN link.ageing_time[1] ELSE 0))
        \o AttrIf(link.multicast_snooping # None, IFLA_BR_MCAST_SNOOPING,
               <<IF link.multicast_snooping = Some(TRUE) THEN 1 ELSE 0>>)
        \o AttrIf(link.vlan_filtering # None, IFLA_BR_VLAN_FILTERING,
               <<IF link.vlan_filtering = Some(TRUE) THEN 1 ELSE 0>>))

\* link_new, the Kind::Veth arm: IFLA_INFO_DATA { VETH_INFO_PEER { link-info
\* header, peer attributes } }
VethData(link) ==
    LET base == link.attrs
        peer_info ==
            AddChildren(
                AddChildFromAttr(AttrNew(VETH_INFO_PEER, <<>>),
                                 IfInfoMessage(AF_UNSPEC, 0)),
                <<AttrNew(IFLA_IFNAME, ZeroTerminated(link.peer_name))>>
                \o AttrIf(base.mtu > 0, IFLA_MTU, U32LE(base.mtu))
                \o AttrIf(base.tx_queue_len >= 0, IFLA_TXQLEN,
                          U32LE(base.tx_queue_len))
                \o AttrIf(base.num_tx_queues > 0, IFLA_NUM_TX_QUEUES,
                          U32LE(base.num_tx_queues))
                \o AttrIf(base.num_rx_queues > 0, IFLA_NUM_RX_QUEUES,
                          U32LE(base.num_rx_queues))
                \o AttrIf(link.peer_hw_addr # None, IFLA_ADDRESS,
                          IF link.peer_hw_addr # None
                          THEN link.peer_hw_addr[1] ELSE <<>>)
                \o AttrIf(link.peer_ns # None /\ link.peer_ns[1].ns = "Pid",
                          IFLA_NET_NS_PID,
                          U32LE(IF link.peer_ns # None
                                THEN link.peer_ns[1].id ELSE 0))
                \o AttrIf(link.peer_ns # None /\ link.peer_ns[1].ns = "Fd",
                          IFLA_NET_NS_FD,
                          U32LE(IF link.peer_ns # None
                                THEN link.peer_ns[1].id ELSE 0)))
    IN AddChildFromAttr(AttrNew(IFLA_INFO_DATA, <<>>), peer_info)

\* link_new up to execute: the request built for link with the flags given
LinkNewRequest(link, flags) ==
    LET base == link.attrs
        msg0 == IfInfoMessage(AF_UNSPEC, IF base.index # 0 THEN base.index ELSE 0)
        msg == IF BitAnd(base.flags, IFF_UP) # 0
               THEN [msg0 EXCEPT !.ifi_flags = IFF_UP, !.ifi_change = IFF_UP]
               ELSE msg0
        kind == AddChild(AttrNew(IFLA_LINKINFO, <<>>), IFLA_INFO_KIND,
                         LinkType(link.kind))
        link_info ==
            CASE link.kind = "Bridge" -> AddChildFromAttr(kind, BridgeData(link))
              [] link.kind = "Veth" -> AddChildFromAttr(kind, VethData(link))
              [] OTHER -> kind
    IN [NetlinkRequestNew(RTM_NEWLINK, flags) EXCEPT !.data =
           <<msg, AttrNew(IFLA_IFNAME, ZeroTerminated(base.name))>>
           \o AttrIf(base.mtu > 0, IFLA_MTU, U32LE(base.mtu))
           \o AttrIf(base.tx_queue_len > 0, IFLA_TXQLEN,
                     U32LE(base.tx_queue_len))
           \o AttrIf(base.num_tx_queues > 0, IFLA_NUM_TX_QUEUES,
                     U32LE(base.num_tx_queues))
           \o AttrIf(base.num_rx_queues > 0, IFLA_NUM_RX_QUEUES,
                     U32LE(base.num_rx_queues))
           \o <<link_info>>]

\* link_del, link_get and link_setup up to execute
LinkDelRequest(link) ==
    [NetlinkRequestNew(RTM_DELLINK, NLM_F_ACK) EXCEPT !.data =
        <<IfInfoMessage(AF_UNSPEC, link.attrs.index)>>]

LinkGetRequest(attr) ==
    [NetlinkRequestNew(RTM_GETLINK, NLM_F_ACK) EXCEPT !.data =
        <<IfInfoMessage(AF_UNSPEC, IF attr.index # 0 THEN attr.index ELSE 0)>>
        \o AttrIf(attr.name # <<>>, IFLA_IFNAME, attr.name)]

LinkSetupRequest(link) ==
    [NetlinkRequestNew(RTM_NEWLINK, NLM_F_ACK) EXCEPT !.data =
        <<[IfInfoMessage(AF_UNSPEC, link.attrs.index) EXCEPT
              !.ifi_flags = IFF_UP, !.ifi_change = IFF_UP]>>]

(***************************************************************************)
(* link_deserialize.                                                       *)
(***************************************************************************)
\* Ok(v), and the panic of a slice or of an unwrap, of a deserializer
Ok(v) == [st |-> "Ok", val |-> v]

Panic == [st |-> "Panic", val |-> <<>>]

\* IfInfoMessage::deserialize: the struct at buf[..IF_INFO_MSG_SIZE]
IfInfoMessageDeserialize(buf) ==
    IF ~SliceOk(buf, 0, IF_INFO_MSG_SIZE) THEN Panic
    ELSE Ok([k |-> "ifinfo", ifi_family |-> buf[1], ifi_type |-> U16At(buf, 2),
             ifi_index |-> U32At(buf, 4), ifi_flags |-> U32At(buf, 8),
             ifi_change |-> U32At(buf, 12)])

\* NetlinkRouteAttr::map: the loop of from, each value inserted under its
\* type; get finds the value inserted last
NetlinkRouteAttrMap(buf) == NetlinkRouteAttrFrom(buf)

MapHas(items, t) == \E i \in DOMAIN items : items[i].rta_type = t

MapGet(items, t) ==
    LET I == {i \in DOMAIN items : items[i].rta_type = t} IN
    items[CHOOSE i \in I : \A j \in I : j <= i].value

\* String::from_utf8(value[..value.len() - 1]): the index underflows or is
\* out of range for an empty value
StripLast(value) ==
    IF Len(value) = 0 THEN Panic ELSE Ok(SubSeq(value, 1, Len(value) - 1))

\* u32::from_ne_bytes(value[..4])
FromNeBytesU32(value) ==
    IF ~SliceOk(value, 0, 4) THEN Panic ELSE Ok(U32At(value, 0))

\* what the walk over attributes carries: base, the kind data, and whether
\* a step panicked
Walk(st, base, data) == [st |-> st, base |-> base, data |-> data]

\* extract_link_info: IFLA_INFO_KIND sets base.link_type, IFLA_INFO_DATA
\* gives the map of the kind data
RECURSIVE ExtractLinkInfo(_, _)
ExtractLinkInfo(w, infos) ==
    IF infos = <<>> \/ w.st # "Ok" THEN w
    ELSE LET info == Head(infos) IN
         CASE info.rta_type = IFLA_INFO_KIND ->
                LET r == StripLast(info.value) IN
                IF r.st # "Ok" THEN Walk("Panic", w.base, w.data)
                ELSE ExtractLinkInfo(
                        Walk("Ok", [w.base EXCEPT !.link_type = r.val], w.data),
                        Tail(infos))
           [] info.rta_type = IFLA_INFO_DATA ->
                LET r == NetlinkRouteAttrMap(info.value) IN
                IF r.st # "Ok" THEN Walk("Panic", w.base, w.data)
                ELSE ExtractLinkInfo(Walk("Ok", w.base, r.items), Tail(infos))
           [] OTHER -> ExtractLinkInfo(w, Tail(infos))

\* one field of base read from a 4-byte value
SetU32(w, field, value) ==
    LET r == FromNeBytesU32(value) IN
    IF r.st # "Ok" THEN Walk("Panic", w.base, w.data)
    ELSE Walk("Ok", [w.base EXCEPT ![field] = r.val], w.data)

\* the for loop of link_deserialize over the attributes after the header
\* (the arms for the types link_new emits; every other type leaves base and
\* data as they are)
RECURSIVE LinkWalk(_, _)
LinkWalk(w, attrs) ==
    IF attrs = <<>> \/ w.st # "Ok" THEN w
    ELSE LET attr == Head(attrs)
             next ==
               CASE attr.rta_type = IFLA_LINKINFO ->
                      LET r == NetlinkRouteAttrFrom(attr.value) IN
                      IF r.st # "Ok" THEN Walk("Panic", w.base, w.data)
                      ELSE ExtractLinkInfo(Walk("Ok", w.base, <<>>), r.items)
                 [] attr.rta_type = IFLA_ADDRESS ->
                      Walk("Ok", [w.base EXCEPT !.hw_addr = attr.value], w.data)
                 [] attr.rta_type = IFLA_IFNAME ->
                      LET r == StripLast(attr.value) IN
                      IF r.st # "Ok" THEN Walk("Panic", w.base, w.data)
                      ELSE Walk("Ok", [w.base EXCEPT !.name = r.val], w.data)
                 [] attr.rta_type = IFLA_MTU -> SetU32(w, "mtu", attr.value)
                 [] attr.rta_type = IFLA_TXQLEN ->
                      SetU32(w, "tx_queue_len", attr.value)
                 [] attr.rta_type = IFLA_NUM_TX_QUEUES ->
                      SetU32(w, "num_tx_queues", attr.value)
                 [] attr.rta_type = IFLA_NUM_RX_QUEUES ->
                      SetU32(w, "num_rx_queues", attr.value)
                 [] OTHER -> w
         IN LinkWalk(next, Tail(attrs))

\* data.get(t).map(|v| u32::from_ne_bytes(v[..4])) and .map(|v| v[0] == 1)
GetU32(data, t) ==
    IF ~MapHas(data, t) THEN Ok(None)
    ELSE LET r == FromNeBytesU32(MapGet(data, t)) IN
         IF r.st # "Ok" THEN Panic ELSE Ok(Some(r.val))

GetBool(data, t) ==
    IF ~MapHas(data, t) THEN Ok(None)
    ELSE IF MapGet(data, t) = <<>> THEN Panic
    ELSE Ok(Some(MapGet(data, t)[1] = 1))

KindOfData(base, data) ==
    IF data # <<>> THEN Ok(Kind("Bridge", base)) ELSE Ok(Kind("Device", base))

\* the variant link_deserialize returns for base and data
KindOf(base, data) ==
    CASE base.link_type = LinkType("Dummy") -> Ok(Kind("Dummy", base))
      [] base.link_type = LinkType("Bridge") ->
           LET h == GetU32(data, IFLA_BR_HELLO_TIME)
               a == GetU32(data, IFLA_BR_AGEING_TIME)
               m == GetBool(data, IFLA_BR_MCAST_SNOOPING)
               v == GetBool(data, IFLA_BR_VLAN_FILTERING)
           IN IF h.st # "Ok" \/ a.st # "Ok" \/ m.st # "Ok" \/ v.st # "Ok"
              THEN Panic
              ELSE Ok([Kind("Bridge", base) EXCEPT
                          !.hello_time = h.val, !.ageing_time = a.val,
                          !.multicast_snooping = m.val,
                          !.vlan_filtering = v.val])
      [] base.link_type = LinkType("Veth") -> Ok(Kind("Veth", base))
      [] OTHER -> Ok(Kind("Device", base))

\* link_deserialize
LinkDeserialize(buf) ==
    LET if_info_msg == IfInfoMessageDeserialize(buf) IN
    IF if_info_msg.st # "Ok" THEN Panic
    ELSE LET rt_attrs ==
                 NetlinkRouteAttrFrom(Slice(buf, IF_INFO_MSG_SIZE, Len(buf)))
         IN
         IF rt_attrs.st # "Ok" THEN Panic
         ELSE LET base0 == [LinkAttrs(<<>>, if_info_msg.val.ifi_index, <<>>, 0, 0)
                               EXCEPT !.raw_flags = if_info_msg.val.ifi_flags]
                  w == LinkWalk(Walk("Ok", base0, <<>>), rt_attrs.items)
              IN IF w.st # "Ok" THEN Panic ELSE KindOf(w.base, w.data)

(***************************************************************************)
(* Addresses: addr_handle up to execute, and addr_deserialize.             *)
(***************************************************************************)
\* IpAddr and IpNet: the variant (4 or 6), the octets, the prefix length
IpAddr(v, octets) == [v |-> v, octets |-> octets]

IpNet(addr, prefix_len) == [addr |-> addr, prefix_len |-> prefix_len]

Err(msg) == [st |-> "Err", val |-> msg]

FamilyOf(addr) == IF addr.v = 4 THEN AF_INET ELSE AF_INET6

\* Ipv4Addr::to_ipv6_mapped: ::ffff:a.b.c.d
ToIpv6Mapped(octets) == [i \in 1..10 |-> 0] \o <<255, 255>> \o octets

\* Ipv6Addr::to_ipv4: Some for ::a.b.c.d and ::ffff:a.b.c.d, else None
ToIpv4(octets) ==
    IF /\ \A i \in 1..10 : octets[i] = 0
       /\ <<octets[11], octets[12]>> \in {<<0, 0>>, <<255, 255>>}
    THEN Some(SubSeq(octets, 13, 16))
    ELSE None

\* Ipv4Net::broadcast: the address with the host bits set
Pow2(n) == IF n = 0 THEN 1 ELSE 2 ^ n

Broadcast(octets, prefix_len) ==
    [i \in 1..4 |->
        LET h0 == 8 * i - prefix_len
            h == IF h0 < 0 THEN 0 ELSE IF h0 > 8 THEN 8 ELSE h0
        IN (octets[i] \div Pow2(h)) * Pow2(h) + Pow2(h) - 1]

\* an Address (the fields addr_handle and addr_deserialize use)
Address(index, ip, label, scope, broadcast, peer) ==
    [index |-> index, ip |-> ip, label |-> label, flags |-> 0,
     scope |-> scope, broadcast |-> broadcast, peer |-> peer]

\* the 8-byte address message addr_handle builds
AddressMessage(family, prefix_len, flags, scope, index) ==
    [IfAddrMessage(family, prefix_len, index) EXCEPT
        !.ifa_flags = flags % 256, !.ifa_scope = scope % 256]

\* addr_handle after the index is resolved, up to execute: the request, or
\* the panic of to_ipv4().unwrap()
AddrRequest(index, addr, proto, flags) ==
    LET family == FamilyOf(addr.ip.addr)
        local_addr_data == addr.ip.addr.octets
        peer == IF addr.peer = None THEN IpAddr(0, <<>>) ELSE addr.peer[1].addr
        peer_addr_data ==
            CASE addr.peer = None -> Some(local_addr_data)
              [] peer.v = 4 /\ family = AF_INET6 -> Some(ToIpv6Mapped(peer.octets))
              [] peer.v = 6 /\ family = AF_INET -> ToIpv4(peer.octets)
              [] OTHER -> Some(peer.octets)
        broadcast ==
            IF addr.broadcast # None THEN addr.broadcast[1].octets
            ELSE IF addr.ip.addr.v = 4
                 THEN Broadcast(addr.ip.addr.octets, addr.ip.prefix_len)
                 ELSE <<>>
    IN
    IF peer_addr_data = None THEN Panic
    ELSE Ok([NetlinkRequestNew(proto, flags) EXCEPT !.data =
                <<AddressMessage(family, addr.ip.prefix_len, addr.flags,
                                 addr.scope, index),
                  AttrNew(IFA_LOCAL, local_addr_data),
                  AttrNew(IFA_ADDRESS, peer_addr_data[1])>>
                \o AttrIf(family = AF_INET, IFA_BROADCAST, broadcast)
                \o AttrIf(family = AF_INET /\ addr.label # <<>>, IFA_LABEL,
                          ZeroTerminated(addr.label))])

\* addr_show up to execute
AddrShowRequest(family) ==
    [NetlinkRequestNew(RTM_GETADDR, NLM_F_DUMP) EXCEPT !.data =
        <<IfAddrMessage(family, 0, 0)>>]

\* vec_to_addr
VecToAddr(vec) ==
    CASE Len(vec) = 4 -> Ok(IpAddr(4, vec))
      [] Len(vec) = 16 -> Ok(IpAddr(6, vec))
      [] OTHER -> Err("invalid address length")

\* IpNet::new: the prefix length must fit the family
IpNetNew(addr, prefix_len) ==
    IF prefix_len > (IF addr.v = 4 THEN 32 ELSE 128)
    THEN Err("invalid prefix length")
    ELSE Ok(IpNet(addr, prefix_len))

\* IfAddrMessage::deserialize: the struct at buf[..IF_ADDR_MSG_SIZE]
IfAddrMessageDeserialize(buf) ==
    IF ~SliceOk(buf, 0, IF_ADDR_MSG_SIZE) THEN Panic
    ELSE Ok([k |-> "ifaddr", ifa_family |-> buf[1], ifa_prefix_len |-> buf[2],
             ifa_flags |-> buf[3], ifa_scope |-> buf[4],
             ifa_index |-> U32At(buf, 4)])

\* the arm of addr_deserialize that sets addr.ip
TakeAddress(attr) == attr.rta_type = IFA_ADDRESS

\* the for loop of addr_deserialize: IFA_ADDRESS sets addr.ip, the other
\* types leave addr as it is
RECURSIVE AddrWalk(_, _, _)
AddrWalk(r, attrs, prefix_len) ==
    IF attrs = <<>> \/ r.st # "Ok" THEN r
    ELSE LET attr == Head(attrs) IN
         IF TakeAddress(attr)
         THEN LET a == VecToAddr(attr.value)
                  n == IF a.st = "Ok" THEN IpNetNew(a.val, prefix_len) ELSE a
              IN IF n.st # "Ok" THEN n
                 ELSE AddrWalk(Ok([r.val EXCEPT !.ip = n.val]), Tail(attrs),
                               prefix_len)
         ELSE AddrWalk(r, Tail(attrs), prefix_len)

\* addr_deserialize
AddrDeserialize(buf) ==
    LET if_addr_msg == IfAddrMessageDeserialize(buf) IN
    IF if_addr_msg.st # "Ok" THEN Panic
    ELSE LET rt_attrs ==
                 NetlinkRouteAttrFrom(Slice(buf, IF_ADDR_MSG_SIZE, Len(buf)))
         IN
         IF rt_attrs.st # "Ok" THEN Panic
         ELSE AddrWalk(
                 Ok(Address(if_addr_msg.val.ifa_index,
                            IpNet(IpAddr(4, <<0, 0, 0, 0>>), 0), <<>>,
                            if_addr_msg.val.ifa_scope, None, None)),
                 rt_attrs.items, if_addr_msg.val.ifa_prefix_len)

(***************************************************************************)
(* Routes: route_handle up to execute, and route_deserialize.              *)
(***************************************************************************)
\* a Route (handle.rs reads the out-interface index as route.index)
Route(oif_index, dst, src, gw, scope) ==
    [oif_index |-> oif_index, iif_index |-> 0, family |-> 0, dst |-> dst,
     src |-> src, gw |-> gw, tos |-> 0, table |-> 0, protocol |-> 0,
     scope |-> scope, rtm_type |-> 0, flags |-> 0]

\* RouteMessage::new_rt_msg: the full message (main table, boot protocol,
\* unicast), no family yet
NewRtMsg == RouteMessage(0, 0, 254, 3, 1)

\* RouteMessage::new_rt_del_msg: the delete-shaped message
NewRtDelMsg == RouteMessage(0, 0, 0, 0, 0)

\* what route_handle holds while it builds: the message, the attributes, and
\* the error it bailed with ("" while it has not)
Building(msg, attrs, err) == [msg |-> msg, attrs |-> attrs, err |-> err]

PutDstNoLen(b, dst) ==
    IF dst = None THEN b
    ELSE Building([b.msg EXCEPT !.family = FamilyOf(dst[1].addr)],
                  Append(b.attrs, AttrNew(RTA_DST, dst[1].addr.octets)), b.err)

\* if let Some(dst): the family and dst_len of the message, and RTA_DST
PutDst(b, dst) ==
    IF dst = None THEN b
    ELSE Building([b.msg EXCEPT !.family = FamilyOf(dst[1].addr),
                                !.dst_len = dst[1].prefix_len],
                  Append(b.attrs, AttrNew(RTA_DST, dst[1].addr.octets)), b.err)

FamilyNeverChecked(b, a, rta_type, msg) ==
    IF a = None \/ b.err # "" THEN b
    ELSE Building([b.msg EXCEPT !.family = FamilyOf(a[1])],
                  Append(b.attrs, AttrNew(rta_type, a[1].octets)), b.err)

\* if let Some(src) / Some(gw): the family is set when the message has none,
\* compared otherwise; bail! on a mismatch
PutAddr(b, a, rta_type, msg) ==
    IF a = None \/ b.err # "" THEN b
    ELSE IF b.msg.family = 0
    THEN Building([b.msg EXCEPT !.family = FamilyOf(a[1])],
                  Append(b.attrs, AttrNew(rta_type, a[1].octets)), b.err)
    ELSE IF b.msg.family # FamilyOf(a[1])
    THEN Building(b.msg, b.attrs, msg)
    ELSE Building(b.msg, Append(b.attrs, AttrNew(rta_type, a[1].octets)), b.err)

\* route_handle up to execute: the request, or the error of bail!
RouteRequest(route, proto, flags) ==
    LET msg == IF proto = RTM_DELROUTE THEN NewRtDelMsg ELSE NewRtMsg
        b0 == Building(msg,
                       AttrIf(proto # RTM_GETROUTE \/ route.oif_index > 0,
                              RTA_OIF, U32LE(route.oif_index)), "")
        b1 == PutDst(b0, route.dst)
        b2 == PutAddr(b1, route.src, RTA_PREFSRC,
                      "src and dst address family mismatch")
        b3 == PutAddr(b2, route.gw, RTA_GATEWAY,
                      "gw, src and dst address family mismatch")
    IN
    IF b3.err # "" THEN Err(b3.err)
    ELSE Ok([NetlinkRequestNew(proto, flags) EXCEPT !.data =
                <<[b3.msg EXCEPT !.flags = route.flags,
                                 !.scope = route.scope]>> \o b3.attrs])

\* the size of the route message on the wire
RT_MSG_SIZE == 12

\* RouteMessage::deserialize: the struct at buf[..RT_MSG_SIZE]
RouteMessageDeserialize(buf) ==
    IF ~SliceOk(buf, 0, RT_MSG_SIZE) THEN Panic
    ELSE Ok([k |-> "route", family |-> buf[1], dst_len |-> buf[2],
             src_len |-> buf[3], tos |-> buf[4], table |-> buf[5],
             protocol |-> buf[6], scope |-> buf[7], type |-> buf[8],
             flags |-> U32At(buf, 8)])

\* route.gw / route.src = Some(vec_to_addr(attr.value)?)
RouteAddr(r, value, field) ==
    LET a == VecToAddr(value) IN
    IF a.st # "Ok" THEN a ELSE Ok([r.val EXCEPT ![field] = Some(a.val)])

\* i32::from_ne_bytes(attr.value[..4])
RouteIndex(r, value, field) ==
    IF ~SliceOk(value, 0, 4) THEN Panic
    ELSE Ok([r.val EXCEPT ![field] = FromNeBytesI32(SubSeq(value, 1, 4))])

\* the for loop of route_deserialize
RECURSIVE RouteWalk(_, _, _)
RouteWalk(r, attrs, dst_len) ==
    IF attrs = <<>> \/ r.st # "Ok" THEN r
    ELSE LET attr == Head(attrs)
             t == attr.rta_type
             n == CASE t = RTA_GATEWAY -> RouteAddr(r, attr.value, "gw")
                    [] t = RTA_PREFSRC -> RouteAddr(r, attr.value, "src")
                    [] t = RTA_DST ->
                        LET a == VecToAddr(attr.value)
                            d == IF a.st = "Ok" THEN IpNetNew(a.val, dst_len)
                                 ELSE a
                        IN IF d.st # "Ok" THEN d
                           ELSE Ok([r.val EXCEPT !.dst = Some(d.val)])
                    [] t = RTA_OIF -> RouteIndex(r, attr.value, "oif_index")
                    [] t = RTA_IIF -> RouteIndex(r, attr.value, "iif_index")
                    [] OTHER -> r
         IN RouteWalk(n, Tail(attrs), dst_len)

\* route_deserialize
RouteDeserialize(buf) ==
    LET if_route_msg == RouteMessageDeserialize(buf) IN
    IF if_route_msg.st # "Ok" THEN Panic
    ELSE LET rt_attrs == NetlinkRouteAttrFrom(Slice(buf, RT_MSG_SIZE, Len(buf)))
             m == if_route_msg.val
         IN
         IF rt_attrs.st # "Ok" THEN Panic
         ELSE RouteWalk(
                 Ok([Route(0, None, None, None, m.scope) EXCEPT
                        !.family = m.family, !.tos = m.tos, !.table = m.table,
                        !.protocol = m.protocol, !.rtm_type = m.type]),
                 rt_attrs.items, m.dst_len)

(***************************************************************************)
(* The verbs, each with the transactions it runs.                          *)
(***************************************************************************)
\* no verb called yet
NoCall ==
    [n |-> 0, verb |-> "none", cmd |-> "", arg |-> <<>>, fault |-> "none",
     replies |-> <<>>, seq0 |-> 0, sent |-> <<>>]

NoRet == [st |-> "None", val |-> <<>>]

\* the reservation store (the lines of the file, as host numbers of the
\* subnet) and the invocations of allocate_ip: where each one is, the
\* reserved addresses it read, what it returned, and whether two of them
\* ever ran at the same time
Invocations == 1..MaxInvocations

IpamWith(store) ==
    [store |-> store,
     pc |-> [p \in Invocations |-> "idle"],
     reserved |-> [p \in Invocations |-> <<>>],
     result |-> [p \in Invocations |-> <<>>],
     overlapped |-> FALSE]

IpamIdle == IpamWith(<<>>)

\* SockAddrNetlink::new
SockAddrNetlink(pid, groups) == [nl_pid |-> pid, nl_groups |-> groups]

\* NetlinkSocket::new(protocol, pid, groups) when socket and bind succeed:
\* lsa is the address the socket is bound to; to lists the destinations of
\* the sendto calls made on it
NetlinkSocketNew(protocol, pid, groups) ==
    [protocol |-> protocol, lsa |-> SockAddrNetlink(pid, groups), to |-> <<>>]

NoSock == NetlinkSocketNew(NETLINK_ROUTE, 0, 0)

\* Netlink::new: one SocketHandle per supported protocol; sockets maps a
\* protocol to the number of the socket its handle owns, opened and closed
\* count the sockets opened and closed so far
NetlinkNew ==
    [sockets |-> [p \in SUPPORTED_PROTOCOLS |-> 1], opened |-> 1, closed |-> 0]

ApiIdle ==
    /\ call = NoCall
    /\ ret = NoRet
    /\ nl = NetlinkNew
    /\ sock = NoSock
    /\ ipam = IpamIdle

\* self.sockets.entry(protocol).or_insert(SocketHandle::new(protocol)?): the
\* argument is evaluated first, so a socket is opened; an occupied entry
\* keeps its handle and the new one is dropped, which closes its socket
OrInsert(n, protocol) ==
    IF protocol \in DOMAIN n.sockets
    THEN [n EXCEPT !.opened = @ + 1, !.closed = @ + 1]
    ELSE [sockets |-> [p \in DOMAIN n.sockets \cup {protocol} |->
                          IF p = protocol THEN n.opened + 1 ELSE n.sockets[p]],
          opened |-> n.opened + 1, closed |-> n.closed]

\* the n-th verb called, with its argument: the command of addr_handle and
\* route_handle, the fault of the socket (none, SocketHandle::new fails, send
\* fails), the datagrams recv hands to each transaction, the counter at the
\* call, and the buffers given to send
Call(verb, cmd, arg, fault, replies, sent) ==
    [n |-> call.n + 1, verb |-> verb, cmd |-> cmd, arg |-> arg, fault |-> fault,
     replies |-> replies, seq0 |-> seq, sent |-> sent]

Faults == {"none", "new", "send"}

ErrnoOf == CHOOSE e \in OsErrnos : TRUE

\* the 'done loop of execute over the datagrams recv returns, in order; recv
\* fails when there is none left
RECURSIVE RunLoop(_, _, _, _)
RunLoop(stream, r, cur, mu) ==
    IF stream = <<>> THEN Outcome("SocketError", ErrnoOf, <<>>, <<>>)
    ELSE LET dg == Head(stream) IN
         IF ~PeerIsKernel(dg) THEN Outcome("UnexpectedPeer", 0, <<>>, <<>>)
         ELSE LET l == ForMsgs(dg.msgs, 1, r, cur, mu) IN
              CASE l.st = "more" -> RunLoop(Tail(stream), l.res, cur, mu)
                [] l.st = "done" -> Outcome("Ok", 0, <<>>, l.res)
                [] OTHER -> Outcome(l.st, l.errno, l.tail, <<>>)

\* execute as one step: the request stamped s and serialized, the buffer
\* sent, and the outcome of the loop over the replies
Transaction(r, mu, s, fault, stream) ==
    LET ser == SerializeRequest([r EXCEPT !.header.nlmsg_seq = s]) IN
    [seq |-> s,
     req |-> [r EXCEPT !.header = [ser.header EXCEPT !.nlmsg_seq = s]],
     wire |-> ser.buf,
     out |-> IF fault = "send"
             THEN Outcome("SocketError", ErrnoOf, <<>>, <<>>)
             ELSE RunLoop(stream, <<>>, s, mu)]

\* execute(..)?: the payloads, or the error
Payloads(o) == IF o.kind = "Ok" THEN Ok(o.payloads) ELSE Err(o.kind)

\* let _ = execute(..)?; Ok(())
Unit(o) == IF o.kind = "Ok" THEN Ok(<<>>) ELSE Err(o.kind)

\* the handle after a verb ran the transactions txs (at least one) and
\* returned r
Ran(c, r, txs) ==
    LET last == txs[Len(txs)] IN
    /\ call' = [c EXCEPT !.sent = [i \in 1..Len(txs) |-> txs[i].wire]]
    /\ ret' = r
    /\ nl' = OrInsert(nl, NETLINK_ROUTE)
    /\ UNCHANGED <<sock, ipam>>
    /\ seq' = last.seq
    /\ reqSeq' = last.seq
    /\ sentLog' = sentLog \o [i \in 1..Len(txs) |-> txs[i].seq]
    /\ doneLog' = doneLog \o [i \in 1..Len(txs) |->
                                 [seq |-> txs[i].seq, ok |-> txs[i].out.kind = "Ok",
                                  sys |-> txs[i].out.kind = "SocketError"]]
    /\ out' = last.out
    /\ req' = last.req
    /\ wire' = last.wire
    /\ UNCHANGED <<pc, multi, res, queue, curDg, at, resIn, seen, lastTaken,
                   nDelivered>>
    /\ UNCHANGED decVars

\* a verb that returned r before any transaction: the handle is as it was;
\* when SocketHandle::new failed no socket was opened
Bailed(c, r) ==
    /\ call' = c
    /\ ret' = r
    /\ nl' = IF c.fault = "new" THEN nl ELSE OrInsert(nl, NETLINK_ROUTE)
    /\ UNCHANGED <<sock, ipam>>
    /\ UNCHANGED <<txVars, serVars, decVars>>

\* a verb may be called: the process has not panicked
CanCall ==
    /\ pc = "idle"
    /\ ret.st # "Panic"
    /\ call.n < MaxCalls

NoMatchOnCount(o) ==
    IF o.kind # "Ok" THEN Err(o.kind)
    ELSE IF o.payloads = <<>> THEN Err("no link found")
    ELSE LinkDeserialize(o.payloads[1])

\* link_get after execute: match msgs.len()
LinkGetResult(o) ==
    IF o.kind # "Ok" THEN Err(o.kind)
    ELSE CASE Len(o.payloads) = 0 -> Err("no link found")
           [] Len(o.payloads) = 1 -> LinkDeserialize(o.payloads[1])
           [] OTHER -> Err("multiple links found")

\* Netlink::link_add: link_new with CREATE | EXCL | ACK
LinkAdd(link, fault, stream) ==
    /\ CanCall
    /\ LET c == Call("link_add", "", link, fault, <<stream>>, <<>>) IN
       IF fault = "new" THEN Bailed(c, Err("SocketError"))
       ELSE LET t == Transaction(
                        LinkNewRequest(link, BitOr(NLM_F_CREATE,
                                                   BitOr(NLM_F_EXCL, NLM_F_ACK))),
                        FALSE, NextSeq(seq), fault, stream)
            IN Ran(c, Unit(t.out), <<t>>)

\* Netlink::link_modify: link_new with ACK
LinkModify(link, fault, stream) ==
    /\ CanCall
    /\ LET c == Call("link_modify", "", link, fault, <<stream>>, <<>>) IN
       IF fault = "new" THEN Bailed(c, Err("SocketError"))
       ELSE LET t == Transaction(LinkNewRequest(link, NLM_F_ACK), FALSE,
                                 NextSeq(seq), fault, stream)
            IN Ran(c, Unit(t.out), <<t>>)

\* Netlink::link_del
LinkDel(link, fault, stream) ==
    /\ CanCall
    /\ LET c == Call("link_del", "", link, fault, <<stream>>, <<>>) IN
       IF fault = "new" THEN Bailed(c, Err("SocketError"))
       ELSE LET t == Transaction(LinkDelRequest(link), FALSE, NextSeq(seq),
                                 fault, stream)
            IN Ran(c, Unit(t.out), <<t>>)

\* Netlink::link_setup
LinkSetup(link, fault, stream) ==
    /\ CanCall
    /\ LET c == Call("link_setup", "", link, fault, <<stream>>, <<>>) IN
       IF fault = "new" THEN Bailed(c, Err("SocketError"))
       ELSE LET t == Transaction(LinkSetupRequest(link), FALSE, NextSeq(seq),
                                 fault, stream)
            IN Ran(c, Unit(t.out), <<t>>)

\* Netlink::link_get
LinkGet(attr, fault, stream) ==
    /\ CanCall
    /\ LET c == Call("link_get", "", attr, fault, <<stream>>, <<>>) IN
       IF fault = "new" THEN Bailed(c, Err("SocketError"))
       ELSE LET t == Transaction(LinkGetRequest(attr), FALSE, NextSeq(seq),
                                 fault, stream)
            IN Ran(c, LinkGetResult(t.out), <<t>>)

AddrCmdChangeCreates(cmd) ==
    CASE cmd \in {"Add", "Change"} ->
           [proto |-> RTM_NEWADDR,
            flags |-> BitOr(NLM_F_CREATE, BitOr(NLM_F_EXCL, NLM_F_ACK))]
      [] cmd = "Replace" ->
           [proto |-> RTM_NEWADDR,
            flags |-> BitOr(NLM_F_CREATE, BitOr(NLM_F_REPLACE, NLM_F_ACK))]
      [] OTHER -> [proto |-> RTM_DELADDR, flags |-> NLM_F_ACK]

\* the (proto, flags) of an AddrCmd
AddrCmdOf(cmd) ==
    CASE cmd = "Add" ->
           [proto |-> RTM_NEWADDR,
            flags |-> BitOr(NLM_F_CREATE, BitOr(NLM_F_EXCL, NLM_F_ACK))]
      [] cmd = "Change" ->
           [proto |-> RTM_NEWADDR, flags |-> BitOr(NLM_F_REPLACE, NLM_F_ACK)]
      [] cmd = "Replace" ->
           [proto |-> RTM_NEWADDR,
            flags |-> BitOr(NLM_F_CREATE, BitOr(NLM_F_REPLACE, NLM_F_ACK))]
      [] OTHER -> [proto |-> RTM_DELADDR, flags |-> NLM_F_ACK]

LookupIgnored(got) == 0

\* index = match self.link_get(base) { Ok(link) => link.attrs().index,
\* Err(_) => 0 }
LookupIndex(got) == IF got.st = "Ok" THEN got.val.attrs.index ELSE 0

\* Netlink::addr_handle: with index 0 the link is looked up first (streams[1]
\* answers that transaction), then the address request is sent
AddrHandle(cmd, link, addr, fault, streams) ==
    /\ CanCall
    /\ Len(streams) = (IF link.attrs.index = 0 THEN 2 ELSE 1)
    /\ LET c == Call("addr_handle", cmd, [link |-> link, addr |-> addr], fault,
                     streams, <<>>)
           pf == AddrCmdOf(cmd)
           lookup == link.attrs.index = 0
           t1 == Transaction(LinkGetRequest(link.attrs), FALSE, NextSeq(seq),
                             fault, streams[1])
           got == LinkGetResult(t1.out)
           index == IF ~lookup THEN link.attrs.index ELSE LookupIndex(got)
           before == IF lookup THEN <<t1>> ELSE <<>>
           s1 == IF lookup THEN NextSeq(seq) ELSE seq
           r == AddrRequest(index, addr, pf.proto, pf.flags)
       IN
       IF fault = "new" THEN Bailed(c, Err("SocketError"))
       ELSE IF lookup /\ got.st = "Panic" THEN Ran(c, Panic, before)
       ELSE IF r.st # "Ok"
       THEN IF lookup THEN Ran(c, r, before) ELSE Bailed(c, r)
       ELSE LET t2 == Transaction(r.val, FALSE, NextSeq(s1), fault,
                                  streams[Len(streams)])
            IN Ran(c, Unit(t2.out), Append(before, t2))

ShowKeepsAll(addr, index) == TRUE

\* the test of addr_show's loop: the address is of the caller's link
ShowKeeps(addr, index) == addr.index = index

\* the for loop of addr_show: each payload deserialized, kept when its index
\* is the link's
RECURSIVE ShowWalk(_, _, _)
ShowWalk(r, msgs, index) ==
    IF msgs = <<>> \/ r.st # "Ok" THEN r
    ELSE LET addr == AddrDeserialize(Head(msgs)) IN
         IF addr.st # "Ok" THEN addr
         ELSE ShowWalk(IF ShowKeeps(addr.val, index)
                       THEN Ok(Append(r.val, addr.val)) ELSE r,
                       Tail(msgs), index)

\* Netlink::addr_show: GETADDR with DUMP, AF_UNSPEC, multi
AddrShow(link, fault, stream) ==
    /\ CanCall
    /\ LET c == Call("addr_show", "", link, fault, <<stream>>, <<>>) IN
       IF fault = "new" THEN Bailed(c, Err("SocketError"))
       ELSE LET t == Transaction(AddrShowRequest(AF_UNSPEC), TRUE, NextSeq(seq),
                                 fault, stream)
                msgs == Payloads(t.out)
            IN Ran(c, IF msgs.st # "Ok" THEN msgs
                      ELSE ShowWalk(Ok(<<>>), msgs.val, link.attrs.index),
                   <<t>>)

\* the (proto, flags) of an RtCmd
RtCmdOf(cmd) ==
    CASE cmd = "Add" ->
           [proto |-> RTM_NEWROUTE,
            flags |-> BitOr(NLM_F_CREATE, BitOr(NLM_F_EXCL, NLM_F_ACK))]
      [] cmd = "Append" ->
           [proto |-> RTM_NEWROUTE,
            flags |-> BitOr(NLM_F_CREATE, BitOr(NLM_F_APPEND, NLM_F_ACK))]
      [] cmd = "Replace" ->
           [proto |-> RTM_NEWROUTE,
            flags |-> BitOr(NLM_F_CREATE, BitOr(NLM_F_REPLACE, NLM_F_ACK))]
      [] OTHER -> [proto |-> RTM_DELROUTE, flags |-> NLM_F_ACK]

\* Netlink::route_handle: bails before execute when the families differ
RouteHandle(cmd, route, fault, stream) ==
    /\ CanCall
    /\ LET c == Call("route_handle", cmd, route, fault, <<stream>>, <<>>)
           pf == RtCmdOf(cmd)
           r == RouteRequest(route, pf.proto, pf.flags)
       IN
       IF fault = "new" THEN Bailed(c, Err("SocketError"))
       ELSE IF r.st # "Ok" THEN Bailed(c, r)
       ELSE LET t == Transaction(r.val, FALSE, NextSeq(seq), fault, stream)
            IN Ran(c, Unit(t.out), <<t>>)

(***************************************************************************)
(* What the verbs are called with (specification SpecApi).                 *)
(***************************************************************************)
\* link names of 1..MaxNameLen characters
Names == UNION {[1..k -> {97}] : k \in 1..MaxNameLen}

\* the attrs of a link as the caller fills them in
LinkBases ==
    {LinkAttrs(<<>>, i, n, m, f) :
        i \in {0, 5}, n \in Names, m \in {0, 1500}, f \in {0, IFF_UP}}

Dummies == {Kind("Dummy", b) : b \in LinkBases}

Bridges ==
    {[Kind("Bridge", b) EXCEPT !.hello_time = h, !.vlan_filtering = v] :
        b \in {x \in LinkBases : x.mtu = 0 /\ x.flags = 0},
        h \in {None, Some(200)}, v \in {None, Some(TRUE)}}

Veths ==
    {[Kind("Veth", b) EXCEPT !.peer_name = <<98>>, !.peer_ns = ns] :
        b \in {x \in LinkBases : x.flags = 0},
        ns \in {None, Some([ns |-> "Pid", id |-> 7])}}

Links == Dummies \cup Bridges \cup Veths

\* links as link_del, link_setup and addr_show take them: the index counts
LinkRefs == {Kind("Dummy", LinkAttrs(<<>>, i, <<97>>, 0, 0)) : i \in {0, 5}}

\* what link_get is asked for: an index, a name, or both
LinkQueries ==
    {LinkAttrs(<<>>, i, n, 0, 0) :
        i \in {0, 5}, n \in {<<>>, <<97, 97, 97>>, [k \in 1..MaxNameLen |-> 97]}}

V4(a, b, c, d) == IpAddr(4, <<a, b, c, d>>)

V6(hi, lo) == IpAddr(6, <<hi>> \o [i \in 1..14 |-> 0] \o <<lo>>)

\* ::ffff:a.b.c.d
V6Mapped(a, b, c, d) == IpAddr(6, ToIpv6Mapped(<<a, b, c, d>>))

Addresses ==
    {Address(0, IpNet(ip, IF ip.v = 4 THEN 24 ELSE 64), bl[2], sc, bl[1], peer) :
        ip \in {V4(10, 0, 0, 1), V6(253, 1)},
        bl \in {<<None, <<>>>>, <<Some(V4(10, 0, 0, 255)), <<108, 111>>>>},
        sc \in {0, 253},
        peer \in {None, Some(IpNet(V4(10, 0, 0, 2), 24)),
                  Some(IpNet(V6(253, 2), 64)),
                  Some(IpNet(V6Mapped(10, 0, 0, 2), 128))}}

Routes ==
    {Route(i, dst, src, gw, 0) :
        i \in {0, 5},
        dst \in {None, Some(IpNet(V4(10, 1, 0, 0), 16)),
                 Some(IpNet(V6(253, 0), 64))},
        src \in {None, Some(V4(10, 0, 0, 1)), Some(V6(253, 1))},
        gw \in {None, Some(V4(10, 0, 0, 254)), Some(V6(253, 254))}}

\* an attribute as the kernel writes it: rta_len without the padding
KernelAttr(rta_type, value) ==
    U16LE(RT_ATTR_SIZE + Len(value)) \o U16LE(rta_type) \o PadTo4(value)

\* the body of a RTM_NEWLINK reply: a dummy link with an index and a name
KernelLink(index, name) ==
    SerializeIfInfo(IfInfoMessage(AF_UNSPEC, index))
        \o KernelAttr(IFLA_IFNAME, ZeroTerminated(name))
        \o KernelAttr(IFLA_LINKINFO,
                      KernelAttr(IFLA_INFO_KIND,
                                 ZeroTerminated(LinkType("Dummy"))))

\* the body of a RTM_NEWADDR reply
KernelAddr(index, ip) ==
    SerializeIfAddr(IfAddrMessage(FamilyOf(ip.addr), ip.prefix_len, index))
        \o KernelAttr(IFA_ADDRESS, ip.addr.octets)
        \o KernelAttr(IFA_LOCAL, ip.addr.octets)

LinkReplies == <<KernelLink(5, <<97, 97, 97>>), KernelLink(6, <<98>>)>>

\* the addresses the kernel holds, in the order it dumps them
KernelAddrs ==
    <<[index |-> 5, ip |-> IpNet(V4(10, 0, 0, 1), 24)],
      [index |-> 6, ip |-> IpNet(V6(253, 1), 64)],
      [index |-> 5, ip |-> IpNet(V4(127, 0, 0, 2), 8)]>>

AddrReplies ==
    [i \in 1..Len(KernelAddrs) |->
        KernelAddr(KernelAddrs[i].index, KernelAddrs[i].ip)]

FromKernel(msgs) == [from |-> PID_KERNEL, msgs |-> msgs]

\* what recv hands to the transaction stamped s of a verb that needs no
\* payload: nothing (recv fails), the acknowledgement, a rejection
AckStreams(s) ==
    {<<>>,
     <<FromKernel(<<Msg(s, LocalPid, NLMSG_ERROR, AckBody)>>)>>,
     <<FromKernel(<<Msg(s, LocalPid, NLMSG_ERROR, NackBody)>>)>>}

\* and of a verb that reads payloads (bodies b, of type t): one payload and
\* the acknowledgement, two payloads over two datagrams ended by DONE, a
\* datagram of another sender, a reply to another request
PayloadStreams(s, t, b) ==
    AckStreams(s) \cup
    {<<FromKernel(<<Msg(s, LocalPid, t, b[1]),
                    Msg(s, LocalPid, NLMSG_ERROR, AckBody)>>)>>,
     <<FromKernel(<<Msg(s, LocalPid, t, b[1])>>),
       FromKernel(<<Msg(s, LocalPid, t, b[2]),
                    Msg(s, LocalPid, NLMSG_DONE, AckBody)>>)>>,
     <<[from |-> CHOOSE f \in OtherPeers : TRUE,
        msgs |-> <<Msg(s, LocalPid, NLMSG_ERROR, AckBody)>>]>>,
     <<FromKernel(<<Msg(s + 1, LocalPid, NLMSG_ERROR, AckBody)>>)>>}

\* the whole table dumped for the request stamped s: over two datagrams,
\* ended by DONE
AddrDump(s) ==
    <<FromKernel(<<Msg(s, LocalPid, RTM_NEWADDR, AddrReplies[1]),
                   Msg(s, LocalPid, RTM_NEWADDR, AddrReplies[2])>>),
      FromKernel(<<Msg(s, LocalPid, RTM_NEWADDR, AddrReplies[3]),
                   Msg(s, LocalPid, NLMSG_DONE, AckBody)>>)>>

TxInit ==
    /\ seq = 0
    /\ pc = "idle"
    /\ multi = FALSE
    /\ reqSeq = 0
    /\ res = <<>>
    /\ out = NoOutcome
    /\ queue = <<>>
    /\ curDg = NoDg
    /\ at = 0
    /\ resIn = <<>>
    /\ seen = <<>>
    /\ lastTaken = NoDg
    /\ sentLog = <<>>
    /\ doneLog = <<>>
    /\ nDelivered = 0

Init ==
    /\ TxInit
    /\ req = NoRequest
    /\ wire = <<>>
    /\ DecIdle
    /\ ApiIdle

Next ==
    \/ \E m \in BOOLEAN : Execute(m)
    \/ \E m \in BOOLEAN, e \in OsErrnos : ExecuteSendFails(m, e)
    \/ \E m \in BOOLEAN, e \in OsErrnos : ExecutePidFails(m, e)
    \/ Recv
    \/ \E e \in OsErrnos : RecvFails(e)
    \/ \E dg \in Datagrams(seq, Min(MaxDgLen, MaxDelivered - nDelivered)) :
         Deliver(dg)

Spec == Init /\ [][Next]_vars

\* SpecSer: a verb builds a request and execute serializes it
InitSer ==
    /\ TxInit
    /\ req \in {NetlinkRequestNew(p, f) :
                   p \in {RTM_NEWLINK, RTM_NEWADDR, RTM_NEWROUTE},
                   f \in {NLM_F_ACK, BitOr(NLM_F_CREATE, BitOr(NLM_F_EXCL, NLM_F_ACK))}}
    /\ wire = <<>>
    /\ DecIdle
    /\ ApiIdle

NextSer ==
    \/ \E d \in Families \cup Attrs : AddData(d)
    \/ \E s \in 1..2 : StampAndSerialize(s)

SpecSer == InitSer /\ [][NextSer]_vars

\* what the kernel answers to request s: payloads and a terminal frame
AnswerAlphabet(s) ==
    {Msg(s, LocalPid, NLMSG_ERROR, AckBody),
     Msg(s, LocalPid, NLMSG_ERROR, NackBody),
     Msg(s, LocalPid, NLMSG_DONE, AckBody),
     Msg(s, LocalPid, RTM_NEWLINK, <<7>>),
     Msg(s, LocalPid, RTM_NEWLINK, <<8, 8>>)}

Answers(s, n) ==
    {[from |-> PID_KERNEL, msgs |-> ms] : ms \in SeqsOf(AnswerAlphabet(s), n)}

\* transactions of SpecLive
MaxLiveTx == 1

\* SpecLive: transactions whose requests the kernel answers. recv blocks
\* until a datagram is queued and then returns it, and the thread in
\* execute keeps running: a turn of the loop that stays possible is taken.
NextLive ==
    \/ \E m \in BOOLEAN : Len(sentLog) < MaxLiveTx /\ Execute(m)
    \/ Recv
    \/ \E e \in OsErrnos : RecvFails(e)
    \/ \E dg \in Answers(seq, Min(MaxDgLen, MaxDelivered - nDelivered)) :
         Deliver(dg)

SpecLive == Init /\ [][NextLive]_vars /\ WF_vars(Recv)

\* SpecDec: a buffer is handed to a parser
InitDec ==
    /\ TxInit
    /\ req = NoRequest
    /\ wire = <<>>
    /\ rsrc \in {src \in Sources : src.fault <= Len(src.items)}
    /\ rbuf = Encode(rsrc)
    /\ dec = NoDec
    /\ ApiIdle

NextDec ==
    \/ ParseMessages
    \/ ParseAttrs

SpecDec == InitDec /\ [][NextDec]_vars

\* SpecApi: verbs are called on the facade, one after the other
InitApi ==
    /\ TxInit
    /\ req = NoRequest
    /\ wire = <<>>
    /\ DecIdle
    /\ ApiIdle

\* the socket as a verb finds it: the datagrams of streams, or a fault
Envs(streams) ==
    {[fault |-> "none", stream |-> st] : st \in streams}
        \cup {[fault |-> f, stream |-> <<>>] : f \in Faults \ {"none"}}

Acked(s) == <<FromKernel(<<Msg(s, LocalPid, NLMSG_ERROR, AckBody)>>)>>

Nacked(s) == <<FromKernel(<<Msg(s, LocalPid, NLMSG_ERROR, NackBody)>>)>>

\* one link of each kind, one address and one route of each shape
SomeLinks ==
    {l \in Links :
        /\ l.attrs.name = <<97>>
        /\ l.attrs.index = 0
        /\ l.attrs.flags = 0
        /\ l.kind # "Bridge" => l.attrs.mtu = 1500
        /\ l.kind = "Bridge" => l.hello_time # None /\ l.vlan_filtering # None
        /\ l.kind = "Veth" => l.peer_ns # None}

SomeAddresses ==
    {a \in Addresses :
        /\ a.scope = 0
        /\ a.broadcast = None
        /\ a.peer # None => a.ip.addr.v = 4 /\ a.peer[1].addr.v = 6}

SomeRoutes == {r \in Routes : r.oif_index = 5}

\* the link the address verbs are given: with its index, or to be looked up
LinkRef(i) == Kind("Dummy", LinkAttrs(<<>>, i, <<97>>, 0, 0))

\* every socket environment for the plain input of a verb, the
\* acknowledgement alone for its other inputs
NextApi ==
    \/ \E l \in SomeLinks, e \in Envs(AckStreams(NextSeq(seq))) :
         /\ l.kind # "Dummy" =>
              (e.fault = "none" /\ e.stream = Acked(NextSeq(seq)))
         /\ LinkAdd(l, e.fault, e.stream)
    \/ \E l \in SomeLinks, e \in Envs({Acked(NextSeq(seq))}) :
         /\ l.kind # "Dummy" => e.fault = "none"
         /\ LinkModify(l, e.fault, e.stream)
    \/ \E l \in LinkRefs, e \in Envs(AckStreams(NextSeq(seq))) :
         /\ l.attrs.index = 0 =>
              (e.fault = "none" /\ e.stream = Acked(NextSeq(seq)))
         /\ LinkDel(l, e.fault, e.stream)
    \/ \E l \in LinkRefs, e \in Envs(AckStreams(NextSeq(seq))) :
         /\ l.attrs.index = 0 =>
              (e.fault = "none" /\ e.stream = Acked(NextSeq(seq)))
         /\ LinkSetup(l, e.fault, e.stream)
    \/ \E a \in {q \in LinkQueries : (q.index = 0) # (q.name = <<>>)},
          e \in Envs(PayloadStreams(NextSeq(seq), RTM_NEWLINK, LinkReplies)) :
         /\ (Len(a.name) > 3 \/ a.index # 0) =>
              (e.fault = "none" /\ Len(e.stream) = 1 /\ PeerIsKernel(e.stream[1])
               /\ e.stream[1].msgs[1].seq = NextSeq(seq)
               /\ e.stream[1].msgs[Len(e.stream[1].msgs)].data = AckBody)
         /\ LinkGet(a, e.fault, e.stream)
    \/ \E cmd \in {"Add", "Change", "Replace", "Del"}, a \in SomeAddresses,
          e \in Envs({Acked(NextSeq(seq))}) :
         /\ (cmd # "Add" \/ e.fault # "none") => (a.peer = None /\ a.ip.addr.v = 4)
         /\ AddrHandle(cmd, LinkRef(5), a, e.fault, <<e.stream>>)
    \/ \E a \in SomeAddresses,
          e \in Envs(PayloadStreams(NextSeq(seq), RTM_NEWLINK, LinkReplies)),
          k \in {Acked(NextSeq(NextSeq(seq))), Nacked(NextSeq(NextSeq(seq)))} :
         /\ a.ip.addr.v = 4
         /\ a.peer # None =>
              (a.peer[1].addr = V6(253, 2) /\ e.stream = Acked(NextSeq(seq)))
         /\ k # Acked(NextSeq(NextSeq(seq))) =>
              /\ a.peer = None
              /\ e.fault = "none"
              /\ e.stream = Acked(NextSeq(seq))
         /\ AddrHandle("Add", LinkRef(0), a, e.fault, <<e.stream, k>>)
    \/ \E i \in {5, 6},
          e \in Envs(PayloadStreams(NextSeq(seq), RTM_NEWADDR, AddrReplies)
                         \cup {AddrDump(NextSeq(seq))}) :
         /\ i = 6 => e.stream = AddrDump(NextSeq(seq))
         /\ AddrShow(LinkRef(i), e.fault, e.stream)
    \/ \E cmd \in {"Add", "Append", "Replace", "Del"}, r \in SomeRoutes,
          e \in Envs({Acked(NextSeq(seq))}) :
         /\ (cmd # "Add" \/ e.fault # "none") =>
              (r.dst # None /\ r.dst[1].addr.v = 4 /\ r.src = None /\ r.gw = None)
         /\ RouteHandle(cmd, r, e.fault, e.stream)

SpecApi == InitApi /\ [][NextApi]_vars

\* SpecTrip: a description goes through a builder, serialize and the
\* deserializer of its family
TripInputs ==
    {[NoCall EXCEPT !.verb = "link_new", !.arg = l] : l \in Links}
        \cup {[NoCall EXCEPT !.verb = "addr_handle", !.cmd = cmd, !.arg = a] :
                 cmd \in {"Add", "Del"}, a \in Addresses}
        \cup {[NoCall EXCEPT !.verb = "route_handle", !.cmd = cmd, !.arg = r] :
                 cmd \in {"Add", "Del"}, r \in Routes}

InitTrip ==
    /\ TxInit
    /\ req = NoRequest
    /\ wire = <<>>
    /\ DecIdle
    /\ call \in TripInputs
    /\ ret = NoRet
    /\ nl = NetlinkNew
    /\ sock = NoSock
    /\ ipam = IpamIdle

\* the body of a serialized request: the bytes after the netlink header
BodyOf(buf) == Slice(buf, NLMSG_HDRLEN, Len(buf))

\* the request r of the pending call serialized as execute does, and d, the
\* deserializer's result on its body
Tripped(r, d) ==
    /\ req' = r
    /\ wire' = SerializeRequest(r).buf
    /\ ret' = d
    /\ UNCHANGED <<call, nl, sock, ipam, txVars, decVars>>

TripLink ==
    /\ ret = NoRet
    /\ call.verb = "link_new"
    /\ LET r == LinkNewRequest(call.arg, NLM_F_ACK) IN
       Tripped(r, LinkDeserialize(BodyOf(SerializeRequest(r).buf)))

TripAddr ==
    /\ ret = NoRet
    /\ call.verb = "addr_handle"
    /\ LET pf == AddrCmdOf(call.cmd)
           r == AddrRequest(5, call.arg, pf.proto, pf.flags)
       IN IF r.st # "Ok" THEN /\ ret' = r
                               /\ UNCHANGED <<call, nl, sock, ipam, txVars, serVars, decVars>>
          ELSE Tripped(r.val, AddrDeserialize(BodyOf(SerializeRequest(r.val).buf)))

TripRoute ==
    /\ ret = NoRet
    /\ call.verb = "route_handle"
    /\ LET pf == RtCmdOf(call.cmd)
           r == RouteRequest(call.arg, pf.proto, pf.flags)
       IN IF r.st # "Ok" THEN /\ ret' = r
                               /\ UNCHANGED <<call, nl, sock, ipam, txVars, serVars, decVars>>
          ELSE Tripped(r.val, RouteDeserialize(BodyOf(SerializeRequest(r.val).buf)))

NextTrip ==
    \/ TripLink
    \/ TripAddr
    \/ TripRoute

SpecTrip == InitTrip /\ [][NextTrip]_vars

\* SpecLink: link_deserialize is given the body of a RTM_NEWLINK message as
\* the kernel writes it. A link of the kernel: the kind string (None when
\* the link has none), the index, the flags, and the bridge attributes of
\* its IFLA_INFO_DATA
KernelLinks ==
    {[kind |-> k, index |-> i, flags |-> f, hello_time |-> h, ageing_time |-> a,
      multicast_snooping |-> m, vlan_filtering |-> v] :
        k \in {None, Some(LinkType("Dummy")), Some(LinkType("Bridge")),
               Some(LinkType("Veth")), Some(<<118, 108, 97, 110>>)},
        i \in {4, 5}, f \in {0, 4099},
        h \in {None, Some(200)}, a \in {None, Some(30000)},
        m \in {None, Some(0), Some(1)}, v \in {None, Some(1)}}

\* the attribute of an optional value
KernelAttrIf(opt, rta_type, value) ==
    IF opt = None THEN <<>> ELSE KernelAttr(rta_type, value)

KernelLinkMsg(l) ==
    LET data ==
            KernelAttrIf(l.hello_time, IFLA_BR_HELLO_TIME,
                         U32LE(IF l.hello_time = None THEN 0 ELSE l.hello_time[1]))
            \o KernelAttrIf(l.ageing_time, IFLA_BR_AGEING_TIME,
                         U32LE(IF l.ageing_time = None THEN 0 ELSE l.ageing_time[1]))
            \o KernelAttrIf(l.vlan_filtering, IFLA_BR_VLAN_FILTERING,
                         IF l.vlan_filtering = None THEN <<>> ELSE l.vlan_filtering)
            \o KernelAttrIf(l.multicast_snooping, IFLA_BR_MCAST_SNOOPING,
                         IF l.multicast_snooping = None THEN <<>>
                         ELSE l.multicast_snooping)
        info ==
            KernelAttrIf(l.kind, IFLA_INFO_KIND,
                         IF l.kind = None THEN <<>> ELSE ZeroTerminated(l.kind[1]))
            \o (IF data = <<>> THEN <<>> ELSE KernelAttr(IFLA_INFO_DATA, data))
    IN SerializeIfInfo([IfInfoMessage(AF_UNSPEC, l.index) EXCEPT
                           !.ifi_flags = l.flags])
           \o KernelAttr(IFLA_IFNAME, ZeroTerminated(<<97>>))
           \o (IF info = <<>> THEN <<>> ELSE KernelAttr(IFLA_LINKINFO, info))

InitLink ==
    /\ TxInit
    /\ req = NoRequest
    /\ wire = <<>>
    /\ DecIdle
    /\ call \in {[NoCall EXCEPT !.verb = "link_deserialize", !.arg = l] :
                    l \in KernelLinks}
    /\ ret = NoRet
    /\ nl = NetlinkNew
    /\ sock = NoSock
    /\ ipam = IpamIdle

DeserializeLink ==
    /\ ret = NoRet
    /\ call.verb = "link_deserialize"
    /\ ret' = LinkDeserialize(KernelLinkMsg(call.arg))
    /\ UNCHANGED <<call, nl, sock, ipam, txVars, serVars, decVars>>

NextLink == DeserializeLink

SpecLink == InitLink /\ [][NextLink]_vars

\* nmap: every address of the subnet, as its host number
Nmap == 0..(Pow2(SubnetBits) - 1)

\* BTreeSet::pop_first, three times: the three lowest addresses
PopFirst3(S) ==
    LET a == CHOOSE x \in S : \A y \in S : x <= y
        b == CHOOSE x \in S \ {a} : \A y \in S \ {a} : x <= y
        c == CHOOSE x \in S \ {a, b} : \A y \in S \ {a, b} : x <= y
    IN <<a, b, c>>

\* allocate_ip, first statement: the store is opened for appending (and
\* created when missing)
Open(p) ==
    /\ ipam.pc[p] = "idle"
    /\ ipam' = [ipam EXCEPT
          !.pc[p] = "opened",
          !.overlapped = @ \/ \E q \in Invocations :
                                  ipam.pc[q] \in {"opened", "read"}]
    /\ UNCHANGED <<txVars, serVars, decVars, call, ret, nl, sock>>

\* get_reserved_ips: the lines of the store are read
GetReservedIps(p) ==
    /\ ipam.pc[p] = "opened"
    /\ ipam' = [ipam EXCEPT !.pc[p] = "read", !.reserved[p] = ipam.store]
    /\ UNCHANGED <<txVars, serVars, decVars, call, ret, nl, sock>>

\* the rest of allocate_ip: the reserved addresses are removed from the
\* subnet's, the three lowest left are popped (unwrap panics when there is
\* none), the third is appended to the store and the three are returned
Allocate(p) ==
    /\ ipam.pc[p] = "read"
    /\ LET all_ips == Nmap \ {ipam.reserved[p][i] : i \in 1..Len(ipam.reserved[p])}
       IN IF Cardinality(all_ips) < 3
          THEN ipam' = [ipam EXCEPT !.pc[p] = "panicked"]
          ELSE LET r == PopFirst3(all_ips) IN
               ipam' = [ipam EXCEPT !.pc[p] = "done",
                                    !.store = Append(@, r[3]),
                                    !.result[p] = r]
    /\ UNCHANGED <<txVars, serVars, decVars, call, ret, nl, sock>>

\* SpecIpam: plugin invocations allocate from the same subnet and the same
\* store, empty or holding three reservations; each invocation is a
\* process of its own, so their steps interleave
InitIpam ==
    /\ TxInit
    /\ req = NoRequest
    /\ wire = <<>>
    /\ DecIdle
    /\ call = NoCall
    /\ ret = NoRet
    /\ nl = NetlinkNew
    /\ sock = NoSock
    /\ ipam \in {IpamWith(<<>>), IpamWith(<<2, 3, 4>>)}

NextIpam ==
    \/ \E p \in Invocations : Open(p)
    \/ \E p \in Invocations : GetReservedIps(p)
    \/ \E p \in Invocations : Allocate(p)

SpecIpam == InitIpam /\ [][NextIpam]_vars

\* SpecSock: buffers are sent on a socket created with a port and a mask
\* of multicast groups
MaxSends == 3

\* NetlinkSocket::send: sendto(fd, buf, len, 0, addr, addr_len) with the
\* address taken from self.lsa; n is what sendto returned
Send(s, buf, n) ==
    [s EXCEPT !.to = Append(@, [addr |-> s.lsa, len |-> Len(buf), ret |-> n])]

InitSock ==
    /\ TxInit
    /\ req = NoRequest
    /\ wire = <<>>
    /\ DecIdle
    /\ call = NoCall
    /\ ret = NoRet
    /\ nl = NetlinkNew
    /\ sock \in {NetlinkSocketNew(NETLINK_ROUTE, p, g) :
                    p \in {0, LocalPid}, g \in {0, 1}}
    /\ ipam = IpamIdle

SockBuffers ==
    {SerializeRequest(LinkGetRequest(a)).buf :
        a \in {q \in LinkQueries : q.index = 5}}

SockSend(buf) ==
    /\ Len(sock.to) < MaxSends
    /\ sock' = Send(sock, buf, Len(buf))
    /\ UNCHANGED <<txVars, serVars, decVars, call, ret, nl, ipam>>

SockSendFails(buf) ==
    /\ Len(sock.to) < MaxSends
    /\ sock' = Send(sock, buf, -1)
    /\ UNCHANGED <<txVars, serVars, decVars, call, ret, nl, ipam>>

NextSock ==
    \/ \E buf \in SockBuffers : SockSend(buf)
    \/ \E buf \in SockBuffers : SockSendFails(buf)

SpecSock == InitSock /\ [][NextSock]_vars

(***************************************************************************)
(* Properties of the verbs (specification SpecApi).                        *)
(***************************************************************************)
\* the message type and the flags of a buffer given to send
TypeOf(buf) == U16At(buf, 4)

FlagsOf(buf) == U16At(buf, 6)

\* the verb table: message type and flags (REQUEST included) per verb
VerbTable(verb, cmd) ==
    CASE verb \in {"link_add"} ->
           <<RTM_NEWLINK, NLM_F_REQUEST + NLM_F_CREATE + NLM_F_EXCL + NLM_F_ACK>>
      [] verb \in {"link_modify", "link_setup"} ->
           <<RTM_NEWLINK, NLM_F_REQUEST + NLM_F_ACK>>
      [] verb = "link_del" -> <<RTM_DELLINK, NLM_F_REQUEST + NLM_F_ACK>>
      [] verb = "link_get" -> <<RTM_GETLINK, NLM_F_REQUEST + NLM_F_ACK>>
      [] verb = "addr_handle" /\ cmd = "Add" ->
           <<RTM_NEWADDR, NLM_F_REQUEST + NLM_F_CREATE + NLM_F_EXCL + NLM_F_ACK>>
      [] verb = "addr_handle" /\ cmd = "Change" ->
           <<RTM_NEWADDR, NLM_F_REQUEST + NLM_F_REPLACE + NLM_F_ACK>>
      [] verb = "addr_handle" /\ cmd = "Replace" ->
           <<RTM_NEWADDR, NLM_F_REQUEST + NLM_F_CREATE + NLM_F_REPLACE + NLM_F_ACK>>
      [] verb = "addr_handle" /\ cmd = "Del" ->
           <<RTM_DELADDR, NLM_F_REQUEST + NLM_F_ACK>>
      [] verb = "addr_show" -> <<RTM_GETADDR, NLM_F_REQUEST + NLM_F_DUMP>>
      [] verb = "route_handle" /\ cmd = "Add" ->
           <<RTM_NEWROUTE, NLM_F_REQUEST + NLM_F_CREATE + NLM_F_EXCL + NLM_F_ACK>>
      [] verb = "route_handle" /\ cmd = "Append" ->
           <<RTM_NEWROUTE, NLM_F_REQUEST + NLM_F_CREATE + NLM_F_APPEND + NLM_F_ACK>>
      [] verb = "route_handle" /\ cmd = "Replace" ->
           <<RTM_NEWROUTE, NLM_F_REQUEST + NLM_F_CREATE + NLM_F_REPLACE + NLM_F_ACK>>
      [] verb = "route_handle" /\ cmd = "Del" ->
           <<RTM_DELROUTE, NLM_F_REQUEST + NLM_F_ACK>>

\* the buffer addr_handle sends to look the link up, before its own request
IsLookup(i) ==
    /\ call.verb = "addr_handle"
    /\ call.arg.link.attrs.index = 0
    /\ i = 1

\* C14: the request a facade verb sends has the message type and the flags
\* of the verb table, REQUEST included; the one buffer sent besides is the
\* GETLINK | ACK request by which addr_handle looks up a link without index.
C14_VerbTable ==
    \A i \in 1..Len(call.sent) :
        /\ FlagsOf(call.sent[i]) % 2 = 1
        /\ <<TypeOf(call.sent[i]), FlagsOf(call.sent[i])>> =
               (IF IsLookup(i) THEN VerbTable("link_get", "")
                ELSE VerbTable(call.verb, call.cmd))
        /\ i > 1 => IsLookup(1)

C14_Witness ==
    /\ call.verb = "addr_handle"
    /\ call.cmd = "Change"
    /\ Len(call.sent) = 1
    /\ FlagsOf(call.sent[1]) = 261

\* C15: when the transaction of link_get succeeds, zero payloads give
\* NotFound, more than one give Ambiguous, and exactly one gives the link
\* deserialized from it.
C15_ExactlyOne ==
    (call.verb = "link_get" /\ call.fault = "none" /\ out.kind = "Ok") =>
        /\ Len(out.payloads) = 0 => (ret.st = "Err" /\ ret.val = "no link found")
        /\ Len(out.payloads) > 1 =>
             (ret.st = "Err" /\ ret.val = "multiple links found")
        /\ Len(out.payloads) = 1 =>
             /\ ret = LinkDeserialize(out.payloads[1])
             /\ ret.st = "Ok"
             /\ ret.val.attrs.index = 5
             /\ ret.val.attrs.name = <<97, 97, 97>>
             /\ ret.val.kind = "Dummy"

C15_Witness ==
    /\ call.verb = "link_get"
    /\ out.kind = "Ok"
    /\ Len(out.payloads) = 2
    /\ ret.st = "Err"

\* the families of the addresses a route has
FamiliesIn(route) ==
    {FamilyOf(d.addr) : d \in {route.dst[i] : i \in 1..Len(route.dst)}}
        \cup {FamilyOf(a) : a \in {route.src[i] : i \in 1..Len(route.src)}
                                   \cup {route.gw[i] : i \in 1..Len(route.gw)}}

Agree(route) == Cardinality(FamiliesIn(route)) <= 1

\* C20: route_handle on a route whose present addresses differ in family
\* returns the family-mismatch error, and the step sends nothing and leaves
\* the sequence counter as it was.
C20_FailsBeforeSend ==
    [][(/\ call'.n = call.n + 1
        /\ call'.verb = "route_handle"
        /\ call'.fault = "none"
        /\ ~Agree(call'.arg))
       => (/\ ret'.st = "Err"
           /\ ret'.val \in {"src and dst address family mismatch",
                            "gw, src and dst address family mismatch"}
           /\ call'.sent = <<>>
           /\ seq' = seq
           /\ sentLog' = sentLog
           /\ wire' = wire)]_vars

C20_Witness ==
    /\ call.verb = "route_handle"
    /\ call.fault = "none"
    /\ ~Agree(call.arg)
    /\ call.seq0 > 0
    /\ seq = call.seq0
    /\ ret.st = "Err"

\* the bodies of the RTM_NEWADDR messages of a reply stream, in the order
\* they arrive
RECURSIVE DumpBodies(_)
DumpBodies(stream) ==
    IF stream = <<>> THEN <<>>
    ELSE LET m == SelectSeq(Head(stream).msgs, LAMBDA x : x.type = RTM_NEWADDR)
         IN [i \in 1..Len(m) |-> m[i].data] \o DumpBodies(Tail(stream))

\* the address of the kernel's table a dumped body was written from
KernelOf(body) ==
    CHOOSE k \in {KernelAddrs[i] : i \in 1..Len(KernelAddrs)} :
        KernelAddr(k.index, k.ip) = body

\* C21: when addr_show succeeds, its result is the addresses of the dump
\* whose interface index is the link's, in dump order, each with the
\* kernel's address and prefix length; no address of another link is in it.
C21_ShowFilters ==
    (call.verb = "addr_show" /\ ret.st = "Ok") =>
        LET mine == SelectSeq(DumpBodies(call.replies[1]),
                              LAMBDA b : KernelOf(b).index = call.arg.attrs.index)
        IN /\ Len(ret.val) = Len(mine)
           /\ \A i \in 1..Len(mine) :
                /\ ret.val[i].index = call.arg.attrs.index
                /\ ret.val[i].ip = KernelOf(mine[i]).ip

\* a dump of three addresses, two of them of the link, was filtered
C21_Witness ==
    /\ call.verb = "addr_show"
    /\ ret.st = "Ok"
    /\ Len(DumpBodies(call.replies[1])) = 3
    /\ Len(ret.val) = 2
    /\ ret.val[1].ip = IpNet(V4(10, 0, 0, 1), 24)
    /\ ret.val[2].ip = IpNet(V4(127, 0, 0, 2), 8)

\* the attributes a buffer holds, delimited by their length fields
WireAttrs(buf) ==
    LET p == NetlinkRouteAttrFrom(buf) IN
    IF p.st = "Ok" THEN {p.items[i] : i \in 1..Len(p.items)} ELSE {}

\* the payloads of the IFLA_IFNAME attributes of a sent link message: the
\* link's own and, inside IFLA_LINKINFO / IFLA_INFO_DATA / VETH_INFO_PEER
\* after the peer's link-info header, the peer's
IfNamesOnWire(buf) ==
    LET top == WireAttrs(Slice(buf, NLMSG_HDRLEN + IF_INFO_MSG_SIZE, Len(buf)))
        info == UNION {WireAttrs(a.value) : a \in {x \in top : x.rta_type = IFLA_LINKINFO}}
        data == UNION {WireAttrs(a.value) :
                          a \in {x \in info : x.rta_type = IFLA_INFO_DATA}}
        peer == UNION {WireAttrs(Slice(a.value, IF_INFO_MSG_SIZE, Len(a.value))) :
                          a \in {x \in data : /\ x.rta_type = VETH_INFO_PEER
                                              /\ Len(x.value) >= IF_INFO_MSG_SIZE}}
    IN {a.value : a \in {x \in top \cup peer : x.rta_type = IFLA_IFNAME}}

EndsWithZero(v) == v # <<>> /\ v[Len(v)] = 0

\* the link messages among the buffers the last verb sent
LinkBuffers ==
    {call.sent[i] : i \in {j \in 1..Len(call.sent) :
        U16At(call.sent[j], 4) \in {RTM_NEWLINK, RTM_GETLINK}}}

\* C22 as the claim states it: in every sent request that carries an
\* interface name, the payload of each IFLA_IFNAME attribute on the wire
\* ends with a zero byte.
C22_AsStated ==
    \A buf \in LinkBuffers : \A n \in IfNamesOnWire(buf) : EndsWithZero(n)

\* the same for the requests link_new builds (link_add, link_modify)
C22_LinkNewNames ==
    call.verb \in {"link_add", "link_modify"} =>
        \A buf \in LinkBuffers : \A n \in IfNamesOnWire(buf) : EndsWithZero(n)

C22_LinkNewSeen ==
    /\ call.verb = "link_add"
    /\ call.arg.kind = "Veth"
    /\ \E buf \in LinkBuffers : Cardinality(IfNamesOnWire(buf)) = 2

\* C23 as the claim states it: a verb opens a socket only when the map has
\* none for its family, and otherwise leaves the map and the count of
\* opened sockets as they are; the map never holds two sockets for a family.
C23_AsStated ==
    [][/\ nl'.opened > nl.opened => NETLINK_ROUTE \notin DOMAIN nl.sockets
       /\ NETLINK_ROUTE \in DOMAIN nl.sockets => nl'.sockets = nl.sockets]_vars

\* the part that holds: the map keeps the one socket Netlink::new opened,
\* and every transaction of a verb is stamped after the previous one
C23_OneHandleReused ==
    /\ DOMAIN nl.sockets = SUPPORTED_PROTOCOLS
    /\ nl.sockets[NETLINK_ROUTE] = 1
    /\ nl.opened - nl.closed = 1
    /\ \A i \in 1..Len(sentLog) : sentLog[i] = i

C23_SecondCallSent ==
    /\ call.n = 2
    /\ Len(sentLog) >= 2
    /\ nl.opened = 3

\* addr_handle was called on a link whose index is 0 and did not panic
LookedUp ==
    /\ call.verb = "addr_handle"
    /\ call.arg.link.attrs.index = 0
    /\ call.fault # "new"
    /\ ret.st # "Panic"

\* what the lookup's transaction came to: it read the datagrams of
\* call.replies[1]
LookupOutcome ==
    IF call.fault = "send" THEN Outcome("SocketError", ErrnoOf, <<>>, <<>>)
    ELSE RunLoop(call.replies[1], <<>>, call.seq0 + 1, FALSE)

LookupFailed == LookupOutcome.kind # "Ok" \/ Len(LookupOutcome.payloads) # 1

\* C27: addr_handle on a link whose index is 0 sends the link_get request by
\* name, stamped with the next sequence number, and then the address
\* request, stamped with the one after; the address request carries the
\* index the lookup returned, or 0 when the lookup failed, and in that case
\* the kernel's rejection of it is what addr_handle returns.
C27_LookupFirst ==
    LookedUp =>
        /\ Len(call.sent) = 2
        /\ U16At(call.sent[1], 4) = RTM_GETLINK
        /\ U32At(call.sent[1], 8) = call.seq0 + 1
        /\ IfNamesOnWire(call.sent[1]) # {}
        /\ U16At(call.sent[2], 4) = AddrCmdOf(call.cmd).proto
        /\ U32At(call.sent[2], 8) = call.seq0 + 2
        /\ U32At(call.sent[2], NLMSG_HDRLEN + 4) = (IF LookupFailed THEN 0 ELSE 5)
        /\ (LookupFailed /\ call.fault = "none"
               /\ call.replies[2] = Nacked(call.seq0 + 2))
              => ret = Err("KernelError")

\* the lookup found no link, the address request went out with index 0 and
\* the kernel rejected it
C27_Witness ==
    /\ LookedUp
    /\ call.fault = "none"
    /\ LookupOutcome.kind = "Ok"
    /\ LookupOutcome.payloads = <<>>
    /\ Len(call.sent) = 2
    /\ U32At(call.sent[2], NLMSG_HDRLEN + 4) = 0
    /\ ret = Err("KernelError")

\* the lookup found the link and the address request carried its index
C27_Found ==
    /\ LookedUp
    /\ ~LookupFailed
    /\ U32At(call.sent[2], NLMSG_HDRLEN + 4) = 5
    /\ ret.st = "Ok"

(***************************************************************************)
(* Round trips through the deserializers (specification SpecTrip).         *)
(***************************************************************************)
\* C17 as the claim states it: link_deserialize on the body of the request
\* of link_new restores name, index (when set), mtu, link type, variant and
\* the Bridge data.
C17_AsStated ==
    (call.verb = "link_new" /\ ret # NoRet) =>
        /\ ret.st = "Ok"
        /\ ret.val.attrs.name = call.arg.attrs.name
        /\ call.arg.attrs.index # 0 => ret.val.attrs.index = call.arg.attrs.index
        /\ ret.val.attrs.mtu = call.arg.attrs.mtu
        /\ ret.val.attrs.link_type = LinkType(call.arg.kind)
        /\ ret.val.kind = call.arg.kind
        /\ call.arg.kind = "Bridge" =>
             /\ ret.val.hello_time = call.arg.hello_time
             /\ ret.val.vlan_filtering = call.arg.vlan_filtering

\* C18 as the claim states it: addr_deserialize on the body of the request
\* of addr_handle restores index, prefix, family and scope, with or without a
\* peer.
C18_AsStated ==
    (call.verb = "addr_handle" /\ ret # NoRet) =>
        /\ ret.st = "Ok"
        /\ ret.val.index = 5
        /\ ret.val.ip = call.arg.ip
        /\ FamilyOf(ret.val.ip.addr) = FamilyOf(call.arg.ip.addr)
        /\ ret.val.scope = call.arg.scope

\* C19: route_deserialize on the body of the request of route_handle
\* restores the destination prefix, the gateway, the preferred source and the
\* out-interface index of a route whose addresses agree on family.
C19_RouteRoundTrip ==
    (call.verb = "route_handle" /\ ret # NoRet /\ Agree(call.arg)) =>
        /\ ret.st = "Ok"
        /\ ret.val.dst = call.arg.dst
        /\ ret.val.gw = call.arg.gw
        /\ ret.val.src = call.arg.src
        /\ ret.val.oif_index = call.arg.oif_index

C19_Witness ==
    /\ call.verb = "route_handle"
    /\ call.arg.dst = Some(IpNet(V6(253, 0), 64))
    /\ call.arg.gw = Some(V6(253, 254))
    /\ call.arg.src = Some(V6(253, 1))
    /\ call.arg.oif_index = 5
    /\ ret.st = "Ok"
    /\ ret.val.dst = call.arg.dst


(***************************************************************************)
(* Properties of the wire codec (specification SpecSer).                   *)
(***************************************************************************)
Align4(n) == ((n + 3) \div 4) * 4

\* C9: the total_length field of a serialized request equals the number of
\* bytes of the serialized message, and that number is a multiple of 4.
C9_TotalLength ==
    wire # <<>> =>
        /\ U32At(wire, 0) = Len(wire)
        /\ req.header.nlmsg_len = Len(wire)
        /\ Len(wire) % 4 = 0

\* a serialized request that holds an attribute with a 1-byte value and a
\* nested attribute
C9_Witness ==
    /\ wire # <<>>
    /\ \E i \in DOMAIN req.data :
          /\ req.data[i].k = "attr"
          /\ Len(req.data[i].value) = 1
    /\ \E i \in DOMAIN req.data :
          /\ req.data[i].k = "attr"
          /\ req.data[i].children # <<>>

\* the length of the payload of attribute d: its value, or, for a nested
\* attribute, its padded value and its padded children
PayloadLen(d) ==
    IF d.children = <<>> THEN Len(d.value)
    ELSE Align4(Len(d.value)) + Len(SerializeAll(d.children))

\* the parts ds, laid out in b from byte offset off on, are as C10 says
RECURSIVE AttrsAsStated(_, _, _)
AttrsAsStated(b, off, ds) ==
    IF ds = <<>> THEN TRUE
    ELSE LET d == Head(ds)
             length == U16At(b, off)
         IN
         /\ d.k = "attr" =>
               /\ off % 4 = 0
               /\ length = 4 + PayloadLen(d)
               /\ \A p \in (off + length)..(off + Align4(length) - 1) :
                     b[p + 1] = 0
               /\ AttrsAsStated(b, off + 4 + Align4(Len(d.value)), d.children)
         /\ AttrsAsStated(b, off + Len(SerializeData(d)), Tail(ds))

\* C10 as stated: every attribute of a serialized message starts at a
\* multiple of 4, its length field is 4 plus the length of its payload
\* (padding excluded), and the bytes from offset+length up to
\* offset+align4(length) are zero.
C10_AsStated ==
    wire # <<>> => AttrsAsStated(wire, NLMSG_HDRLEN, req.data)

\* the attributes parsed from b are the trees ds: as many, in the same
\* order, each with the type and the payload bytes of its tree; the payload
\* of a tree with children parses to its children (after the family message
\* a nested payload may start with)
RECURSIVE SameTrees(_, _)
SameTrees(b, ds) ==
    LET r == NetlinkRouteAttrFrom(b) IN
    /\ r.st = "Ok"
    /\ Len(r.items) = Len(ds)
    /\ \A i \in DOMAIN ds :
          LET d == ds[i]
              a == r.items[i]
              fam == IF d.children # <<>> /\ Head(d.children).k # "attr"
                     THEN 1 ELSE 0
              lead == Len(SerializeAll(SubSeq(d.children, 1, fam)))
          IN
          /\ a.rta_type = d.rta_type
          /\ IF d.children = <<>> THEN a.value = d.value
             ELSE /\ lead <= Len(a.value)
                  /\ SubSeq(a.value, 1, lead)
                        = SerializeAll(SubSeq(d.children, 1, fam))
                  /\ SameTrees(SubSeq(a.value, lead + 1, Len(a.value)),
                               SubSeq(d.children, fam + 1, Len(d.children)))

\* C11 as stated: parsing the bytes emitted for the attribute trees of a
\* request gives the trees back: the same attributes in the same order, each
\* with its type and exactly its payload bytes.
C11_AsStated ==
    wire # <<>> =>
        LET fam == Len(SerializeData(req.data[1])) IN
        SameTrees(SubSeq(wire, NLMSG_HDRLEN + fam + 1, Len(wire)),
                  Tail(req.data))

(***************************************************************************)
(* Properties of the parsers (specification SpecDec).                      *)
(***************************************************************************)
\* C12: demultiplexing the concatenation of the wire forms of well-formed
\* messages, each padded to a multiple of 4, and of fewer than 16 trailing
\* bytes yields the messages: as many, in order, each with its header and
\* its un-padded body.
C12_Demux ==
    (dec # NoDec /\ rsrc.kind = "msgs" /\ rsrc.fault = 0) =>
        /\ dec = Parsed(rsrc.items)
        /\ \A i \in DOMAIN dec.items :
              Len(dec.items[i].data)
                  = dec.items[i].header.nlmsg_len - NLMSG_HDRLEN

\* two messages, the first with a body that needs padding, and trailing
\* bytes, have been demultiplexed
C12_Witness ==
    /\ dec.st = "Ok"
    /\ rsrc.kind = "msgs"
    /\ rsrc.fault = 0
    /\ Len(rsrc.items) = 2
    /\ Len(rsrc.items[1].data) % 4 = 1
    /\ rsrc.trail # <<>>

\* C13 as stated: a parser handed a buffer in which an item states a length
\* below its header size or beyond the buffer returns MalformedMessage.
C13_AsStated ==
    (dec # NoDec /\ rsrc.fault # 0) => dec.st = "MalformedMessage"

(***************************************************************************)
(* Properties of the transaction loop.                                     *)
(***************************************************************************)
\* the messages of the datagram of the last recv that the for loop took up
Examined == IF PeerIsKernel(curDg) THEN 1..at ELSE {}

\* the transaction ended at message i of that datagram: by break 'done or
\* by a failure raised inside the for loop
EndedAt(i) ==
    /\ pc = "idle"
    /\ at = i
    /\ out.kind \in {"Ok", "KernelError", "SequenceMismatch"}

IsOurs(m) == m.seq = reqSeq /\ m.pid = LocalPid

IsFrame(m) == m.type \in {NLMSG_ERROR, NLMSG_DONE}

BodiesOf(ms) == [i \in DOMAIN ms |-> ms[i].data]

\* C1: a message the loop takes up whose sequence number is not the one of
\* the outstanding request makes the transaction fail with SequenceMismatch
\* at that message, and the failure carries no payload.
C1_SequenceMismatch ==
    \A i \in Examined :
        curDg.msgs[i].seq # reqSeq =>
            /\ EndedAt(i)
            /\ out.kind = "SequenceMismatch"
            /\ out.payloads = <<>>

\* a transaction that had collected a payload failed on a later message
\* with another sequence number
C1_Witness ==
    /\ pc = "idle"
    /\ out.kind = "SequenceMismatch"
    /\ res # <<>>
    /\ curDg.msgs[at].seq # reqSeq

\* C2: a datagram whose peer port is not 0 makes the transaction fail with
\* UnexpectedPeer; the loop takes up none of its messages, res stays as it
\* was and nothing is returned.
C2_UnexpectedPeer ==
    curDg.from # PID_KERNEL =>
        /\ pc = "idle"
        /\ out.kind = "UnexpectedPeer"
        /\ out.payloads = <<>>
        /\ at = 0
        /\ res = resIn

\* a datagram of another sender that holds an acknowledgement with the
\* request's sequence number and port, after a payload had been collected
C2_Witness ==
    /\ curDg.from # PID_KERNEL
    /\ out.kind = "UnexpectedPeer"
    /\ resIn # <<>>
    /\ \E i \in DOMAIN curDg.msgs :
          /\ IsOurs(curDg.msgs[i])
          /\ curDg.msgs[i].type = NLMSG_ERROR
          /\ FromNeBytesI32(curDg.msgs[i].data) = 0

\* C3: a message the loop takes up that carries the request's sequence
\* number and the local port and whose type is ERROR or DONE ends the
\* transaction there: with success when the signed code in its first 4
\* body bytes is 0, else with KernelError, errno = -code, the body after
\* the code as tail and no payload.
C3_ErrorOrDone ==
    \A i \in Examined :
        LET m == curDg.msgs[i] IN
        (IsOurs(m) /\ IsFrame(m)) =>
            LET code == FromNeBytesI32(SubSeq(m.data, 1, 4)) IN
            /\ EndedAt(i)
            /\ code = 0 => out.kind = "Ok"
            /\ code # 0 =>
                /\ out.kind = "KernelError"
                /\ out.errno = 0 - code
                /\ out.tail = SubSeq(m.data, 5, Len(m.data))
                /\ out.payloads = <<>>

\* the kernel rejected the request with code -2 after a payload had been
\* collected
C3_Witness ==
    /\ pc = "idle"
    /\ out.kind = "KernelError"
    /\ out.errno = 2
    /\ out.tail = <<9>>
    /\ res # <<>>
    /\ out.payloads = <<>>

\* the terminal frame among the messages read: the first ERROR / DONE frame
\* for the local port (0 when there is none)
FirstFrame(ms) ==
    LET F == {i \in DOMAIN ms : ms[i].pid = LocalPid /\ IsFrame(ms[i])} IN
    IF F = {} THEN 0 ELSE CHOOSE i \in F : \A j \in F : i <= j

IsOurPayload(m) == IsOurs(m) /\ ~IsFrame(m)

\* C4: a successful transaction returns exactly the bodies of the messages
\* that are neither ERROR nor DONE, carry the request's sequence number and
\* the local port and came before the terminal frame, in order of arrival;
\* the terminal frame's body is not among them.
C4_Payloads ==
    (pc = "idle" /\ out.kind = "Ok") =>
        LET t == FirstFrame(seen) IN
        /\ t > 0
        /\ out.payloads =
              BodiesOf(SelectSeq(SubSeq(seen, 1, t - 1), IsOurPayload))

\* a success that returns two different payloads
C4_Witness ==
    /\ pc = "idle"
    /\ out.kind = "Ok"
    /\ Len(out.payloads) = 2
    /\ out.payloads[1] # out.payloads[2]

\* C5: a transaction returns success only when a terminal ERROR / DONE
\* frame with the current request's sequence number has been received; a
\* request is sent only when every earlier transaction has returned, so the
\* transactions return in the order their requests were sent.
C5_SendOrder ==
    /\ (pc = "idle" /\ out.kind = "Ok") =>
          \E i \in DOMAIN seen :
              /\ IsFrame(seen[i])
              /\ seen[i].seq = reqSeq
              /\ seen[i].seq = sentLog[Len(sentLog)]
    /\ Len(sentLog) = Len(doneLog) + (IF pc = "recv" THEN 1 ELSE 0)
    /\ \A i \in DOMAIN doneLog : doneLog[i].seq = sentLog[i]

\* two transactions have succeeded one after the other
C5_Witness ==
    /\ Len(doneLog) = 2
    /\ doneLog[1].ok
    /\ doneLog[2].ok

\* C6: the sequence number stamped on the n-th request of a handle is n,
\* so it is greater than the number of every earlier request, whatever the
\* outcome of the earlier transactions.
C6_SeqMonotonic ==
    /\ seq = Len(sentLog)
    /\ \A i \in DOMAIN sentLog : sentLog[i] = i
    /\ \A i, j \in DOMAIN sentLog : i < j => sentLog[i] < sentLog[j]

\* a request was stamped after a transaction that failed
C6_Witness ==
    /\ Len(sentLog) = 2
    /\ Len(doneLog) >= 1
    /\ ~doneLog[1].ok

\* the bodies the for loop collects from the messages it took up
Collected ==
    BodiesOf(SelectSeq(SubSeq(curDg.msgs, 1, at), IsOurPayload))

\* C7 as stated: a message for another port is skipped whatever its
\* sequence number: the transaction does not end at it.
C7_AsStated ==
    \A i \in Examined :
        curDg.msgs[i].pid # LocalPid => ~EndedAt(i)

\* C7 as amended: a message for another port that carries the request's
\* sequence number is skipped: the transaction does not end at it and its
\* body is not collected.
C7_SkipOtherPort ==
    /\ \A i \in Examined :
          (curDg.msgs[i].pid # LocalPid /\ curDg.msgs[i].seq = reqSeq) =>
              ~EndedAt(i)
    /\ PeerIsKernel(curDg) => res = resIn \o Collected

\* a transaction succeeded on the frame that followed an acknowledgement
\* for another port
C7_Witness ==
    /\ pc = "idle"
    /\ out.kind = "Ok"
    /\ \E i \in Examined :
          /\ i < at
          /\ curDg.msgs[i].pid # LocalPid
          /\ curDg.msgs[i].seq = reqSeq
          /\ IsFrame(curDg.msgs[i])

\* C8 as stated: when a transaction fails with SequenceMismatch, it has
\* read no message of the genuine reply (the request's sequence number and
\* the local port).
C8_AsStated ==
    (pc = "idle" /\ out.kind = "SequenceMismatch") =>
        \A i \in DOMAIN seen : ~IsOurs(seen[i])

\* C8 as amended: when a transaction fails with SequenceMismatch, the
\* datagram that holds the mismatched message is the last one that left
\* the socket: what is queued behind it has not been read.
C8_NothingReadBehind ==
    (pc = "idle" /\ out.kind = "SequenceMismatch") =>
        /\ lastTaken = curDg
        /\ \E i \in DOMAIN curDg.msgs : curDg.msgs[i].seq # reqSeq

\* a transaction failed on a reply to an earlier request while the reply
\* to its own request was queued behind it
C8_Witness ==
    /\ pc = "idle"
    /\ out.kind = "SequenceMismatch"
    /\ queue # <<>>
    /\ \E i \in DOMAIN queue[1].msgs : IsOurs(queue[1].msgs[i])

\* the messages of the datagrams still queued, in order
RECURSIVE Queued(_)
Queued(q) == IF q = <<>> THEN <<>> ELSE Head(q).msgs \o Queued(Tail(q))

IsAck(m) ==
    /\ m.pid = LocalPid
    /\ IsFrame(m)
    /\ FromNeBytesI32(SubSeq(m.data, 1, 4)) = 0

IsNack(m) ==
    /\ m.pid = LocalPid
    /\ IsFrame(m)
    /\ FromNeBytesI32(SubSeq(m.data, 1, 4)) # 0

\* a transaction that followed one failed by a syscall has returned, without
\* a syscall failure of its own
AfterSocketError ==
    /\ pc = "idle"
    /\ Len(doneLog) >= 2
    /\ doneLog[Len(doneLog) - 1].sys
    /\ out.kind # "SocketError"

\* the kernel answered the current request correctly: the socket was
\* reached by datagrams of the kernel only and by no notification, and the
\* messages with the request's sequence number hold no rejection and hold
\* the terminal frame with code 0
AnsweredCorrectly ==
    LET all == seen \o Queued(queue)
        mine == SelectSeq(all, LAMBDA m : m.seq = reqSeq)
    IN /\ PeerIsKernel(lastTaken)
       /\ \A i \in 1..Len(queue) : PeerIsKernel(queue[i])
       /\ \A i \in 1..Len(all) : all[i].seq # 0
       /\ \A i \in 1..Len(mine) : ~IsNack(mine[i])
       /\ \E i \in 1..Len(mine) : IsAck(mine[i])

KernelAddress == SockAddrNetlink(PID_KERNEL, 0)

\* C25 as the claim states it: every sendto of a socket is addressed to the
\* kernel (port 0, groups 0), whatever the socket was created with.
C25_AsStated ==
    \A i \in 1..Len(sock.to) : sock.to[i].addr = KernelAddress

\* a socket created as SocketHandle::new creates it sends to the kernel
C25_HandleSendsToKernel ==
    sock.lsa = SockAddrNetlink(0, 0) =>
        \A i \in 1..Len(sock.to) : sock.to[i].addr = KernelAddress

C25_HandleSent ==
    /\ sock.lsa = SockAddrNetlink(0, 0)
    /\ Len(sock.to) = MaxSends

(***************************************************************************)
(* Termination of a transaction (specification SpecLive).                  *)
(***************************************************************************)
\* a terminal frame for the outstanding request is in the socket
TerminalQueued ==
    \E i \in 1..Len(Queued(queue)) :
        LET m == Queued(queue)[i] IN
        m.seq = reqSeq /\ m.pid = LocalPid /\ IsFrame(m)

\* the messages the transaction read up to the one it ended at
ReadUpToEnd == SubSeq(seen, 1, Len(seen) - Len(curDg.msgs) + at)

\* C26: once the terminal DONE or ERROR frame of the outstanding request,
\* with its sequence number and the socket's port, is in the socket behind
\* any number of payloads and datagrams, the transaction eventually
\* returns; when it returns success, its result is the bodies of all the
\* payload messages read before the frame it ended at, over all datagrams.
\* (execute is left only by returning: the handle is idle again when this
\* transaction has returned.)
C26_Returns ==
    /\ (pc = "recv" /\ TerminalQueued) ~> (pc = "idle")
    /\ [](pc = "idle" /\ out.kind = "Ok" =>
            LET r == ReadUpToEnd IN
            /\ r # <<>>
            /\ IsAck(r[Len(r)])
            /\ LET p == SelectSeq(SubSeq(r, 1, Len(r) - 1),
                                  LAMBDA m : ~IsFrame(m))
               IN out.payloads = [i \in 1..Len(p) |-> p[i].data])

\* a success whose payloads came in two datagrams, the second one ended by
\* DONE
C26_Witness ==
    /\ pc = "idle"
    /\ out.kind = "Ok"
    /\ Len(seen) > Len(curDg.msgs)
    /\ Len(curDg.msgs) = 2
    /\ curDg.msgs[2].type = NLMSG_DONE
    /\ Len(out.payloads) = 2

(***************************************************************************)
(* Properties of link_deserialize (specification SpecLink).                *)
(***************************************************************************)
\* the variant of a kind string
VariantOf(kind) ==
    CASE kind = Some(<<100, 117, 109, 109, 121>>) -> "Dummy"
      [] kind = Some(<<98, 114, 105, 100, 103, 101>>) -> "Bridge"
      [] kind = Some(<<118, 101, 116, 104>>) -> "Veth"
      [] OTHER -> "Device"

\* Some(v[0] == 1) of an optional byte
AsBool(opt) == IF opt = None THEN None ELSE Some(opt[1] = 1)

\* C28: link_deserialize returns the variant of the INFO_KIND string alone
\* (Device for any other or no kind); a Bridge has each of hello-time,
\* ageing-time, multicast-snooping and vlan-filtering exactly when INFO_DATA
\* holds the attribute, with its value; a Veth has empty peer fields; index
\* and raw flags are the header's.
C28_VariantByKind ==
    (call.verb = "link_deserialize" /\ ret # NoRet) =>
        LET l == call.arg IN
        /\ ret.st = "Ok"
        /\ ret.val.kind = VariantOf(l.kind)
        /\ ret.val.attrs.index = l.index
        /\ ret.val.attrs.raw_flags = l.flags
        /\ ret.val.attrs.link_type = (IF l.kind = None THEN <<>> ELSE l.kind[1])
        /\ ret.val.kind = "Bridge" =>
              /\ ret.val.hello_time = l.hello_time
              /\ ret.val.ageing_time = l.ageing_time
              /\ ret.val.multicast_snooping = AsBool(l.multicast_snooping)
              /\ ret.val.vlan_filtering = AsBool(l.vlan_filtering)
        /\ ret.val.kind # "Bridge" =>
              /\ ret.val.hello_time = None
              /\ ret.val.ageing_time = None
              /\ ret.val.multicast_snooping = None
              /\ ret.val.vlan_filtering = None
        /\ ret.val.peer_name = <<>>
        /\ ret.val.peer_hw_addr = None
        /\ ret.val.peer_ns = None

\* a bridge with ageing-time and a cleared multicast-snooping, without
\* hello-time and vlan-filtering
C28_Witness ==
    /\ call.verb = "link_deserialize"
    /\ ret.st = "Ok"
    /\ ret.val.kind = "Bridge"
    /\ ret.val.attrs.raw_flags = 4099
    /\ ret.val.hello_time = None
    /\ ret.val.ageing_time = Some(30000)
    /\ ret.val.multicast_snooping = Some(FALSE)
    /\ ret.val.vlan_filtering = None

\* a dummy whose INFO_DATA holds bridge attributes is a Dummy
C28_KindAlone ==
    /\ call.verb = "link_deserialize"
    /\ call.arg.hello_time # None
    /\ ret.st = "Ok"
    /\ ret.val.kind = "Dummy"

(***************************************************************************)
(* The expect_multi hint (specification Spec).                             *)
(***************************************************************************)
\* the 'done loop run on the datagrams q from res = r on, for the request
\* stamped cur with the hint mu: how it ends ("recv" when it has read all of
\* q and waits in recv), what it returns and how many datagrams it read
RECURSIVE RunOn(_, _, _, _, _)
RunOn(q, r, cur, mu, n) ==
    IF q = <<>> THEN [st |-> "recv", out |-> NoOutcome, res |-> r, read |-> n]
    ELSE LET dg == RecvFrom(q).dg IN
         IF ~PeerIsKernel(dg)
         THEN [st |-> "returned", out |-> Outcome("UnexpectedPeer", 0, <<>>, <<>>),
               res |-> r, read |-> n + 1]
         ELSE LET l == ForMsgs(dg.msgs, 1, r, cur, mu) IN
              CASE l.st = "more" -> RunOn(RecvFrom(q).rest, l.res, cur, mu, n + 1)
                [] l.st = "done" ->
                     [st |-> "returned", out |-> Outcome("Ok", 0, <<>>, l.res),
                      res |-> l.res, read |-> n + 1]
                [] OTHER ->
                     [st |-> "returned",
                      out |-> Outcome(l.st, l.errno, l.tail, <<>>),
                      res |-> l.res, read |-> n + 1]

\* C29: a transaction run on the same datagrams with the hint set and with
\* the hint cleared reads the same datagrams and returns the same result or
\* the same failure (or waits in recv with the same payloads collected).
C29_HintIrrelevant ==
    pc = "recv" =>
        RunOn(queue, res, reqSeq, TRUE, 0) = RunOn(queue, res, reqSeq, FALSE, 0)

\* a transaction without the hint whose reply is two payloads in two
\* datagrams, the second one ended by the acknowledgement
C29_Witness ==
    /\ pc = "recv"
    /\ ~multi
    /\ res = <<>>
    /\ Len(queue) = 2
    /\ LET r == RunOn(queue, res, reqSeq, multi, 0) IN
       /\ r.st = "returned"
       /\ r.out.kind = "Ok"
       /\ Len(r.out.payloads) = 2
       /\ r.read = 2

(***************************************************************************)
(* Properties of the allocator (specification SpecIpam).                   *)
(***************************************************************************)
Returned == {p \in Invocations : ipam.pc[p] = "done"}

InStore(ip) == \E i \in 1..Len(ipam.store) : ipam.store[i] = ip

\* C30 as the claim states it: no two allocate_ip calls return the same
\* container address, and every returned container address is in the
\* store, however the calls interleave.
C30_AsStated ==
    /\ \A p, q \in Returned : p # q => ipam.result[p][3] # ipam.result[q][3]
    /\ \A p \in Returned : InStore(ipam.result[p][3])

\* the same for calls run one after another
C30_OneAfterAnother ==
    ~ipam.overlapped => C30_AsStated

C30_ThreeInARow ==
    /\ ~ipam.overlapped
    /\ Returned = Invocations

\* every returned container address is in the store, however the calls ran
C30_Recorded ==
    \A p \in Returned : InStore(ipam.result[p][3])

====
